---- MODULE Spec2Model ----
(***************************************************************************)
(* A model of the Haltech knowledge-base scraper.                          *)
(*                                                                         *)
(*   Spec            the fetch scheduler of src/src/scraper.py: one task   *)
(*                   per article URL behind an asyncio.Semaphore, the      *)
(*                   retry recursion of _scrape_article, the barrier       *)
(*                   before the index builder and the final summary.       *)
(*   SpecNormalize   one call of normalize_url (src/src/utils.py)          *)
(*   SpecValid       one call of is_valid_url (src/src/utils.py)           *)
(*   SpecCategorize  one call of categorize_article                        *)
(*                   (src/src/category_mapper.py), full keyword tables     *)
(*   SpecPath        one call of create_output_path (src/src/utils.py)     *)
(*   SpecImages      one call of _process_images followed by               *)
(*                   _ensure_image_references (src/src/scraper.py)         *)
(*   SpecDiscovery   a run of main.py with the crawl of                    *)
(*                   src/src/crawler.py: discover_site_structure and the   *)
(*                   recursion of _discover_page                           *)
(*   SpecIndex       one call of _generate_index_files                     *)
(*                   (src/src/scraper.py) over the files a run wrote       *)
(*   SpecDocuments   the document writes of one run of _scrape_articles    *)
(*                   (src/src/scraper.py)                                  *)
(*   SpecParse       one call of parse_article (src/src/parser.py)         *)
(*                                                                         *)
(* Strings are sequences of one-character strings, and the functions on    *)
(* them are computed character by character as the Python code does.       *)
(*                                                                         *)
(* The scheduler is cooperative: a task runs until its next await, so one  *)
(* action is the code between two suspension points, with every outcome    *)
(* the awaited operation and the code after it can have.                   *)
(***************************************************************************)
EXTENDS Integers, Sequences, FiniteSets, TLC

VARIABLES
    phase,          \* position of scrape_all: "scraping", "index", "summary", "done"
    pc,             \* pc[u]: position of the task of article u
    retry,          \* retry[u]: retry_count of the innermost _scrape_article(u, .)
    navCount,       \* navCount[u]: number of page.goto calls made for u
    navTimeouts,    \* navTimeouts[u]: how many of them raised
    scraped_urls,   \* HaltechScraper.scraped_urls
    failed_urls,    \* HaltechScraper.failed_urls
    sem,            \* the semaphore's free permits
    failed_file,    \* lines of logs/failed_urls.txt, <<>> while not written
    faults,         \* errors raised so far in the run
    contexts,       \* browser contexts opened by new_context and not closed
    timeout,        \* timeout[u]: the timeout of the page.goto of the attempt, 0 before it
    article_data,   \* article_data[u]: the content parse_article found in the attempt
    markdown_content, \* markdown_content[u]: what converter.convert returned in the attempt
    call,           \* the function call under study and its arguments
    ret,            \* its result: [done |-> FALSE] until it has returned
    stage,          \* position of a run in main.py's discover_only or scrape_all
    browsers,       \* the objects holding a launched browser
    stack,          \* the calls of _discover_page under way, innermost last
    visited_urls,   \* HaltechCrawler.visited_urls
    article_urls,   \* HaltechCrawler.article_urls
    fetched,        \* the page.goto calls of the crawler, in order: URL and depth
    site_map        \* logs/site_map.json as _save_site_map writes it

\* The local variables of the innermost _scrape_article of each task
attemptVars == <<timeout, article_data, markdown_content>>

schedVars == <<phase, pc, retry, navCount, navTimeouts, scraped_urls, failed_urls,
               sem, failed_file, faults, contexts, attemptVars>>

fnVars == <<call, ret>>

crawlVars == <<stage, browsers, stack, visited_urls, article_urls, fetched, site_map>>

vars == <<schedVars, fnVars, crawlVars>>

----------------------------------------------------------------------------
(* Bounds and program constants *)

\* config.CONCURRENT_DOWNLOADS as main.py sets it from the command line: the
\* runs studied here are those of --concurrent 2.
CONCURRENT_DOWNLOADS == 2

\* The number of article URLs handed to _scrape_articles.
NumArticles == 3

\* The number of errors the environment raises in one run.
MaxFaults == 4

MAX_RETRIES == 3

\* config.TIMEOUT, milliseconds
TIMEOUT == 30000

DOWNLOAD_IMAGES == TRUE

Articles == 1..NumArticles

----------------------------------------------------------------------------
(* Fetch scheduler *)

\* The positions at which a task holds a permit.
InFlightPcs ==
    {"open", "goto", "loaded", "images", "close_ok", "close_err", "close_werr",
     "cooldown", "delay"}

InFlight == {u \in Articles : pc[u] \in InFlightPcs}

\* No discovery is running: the article URLs are those handed to
\* _scrape_articles.
CrawlerIdle ==
    /\ stage = "idle"
    /\ browsers = {}
    /\ stack = <<>>
    /\ visited_urls = {}
    /\ article_urls = {}
    /\ fetched = <<>>
    /\ site_map = [saved |-> FALSE]

\* A local variable that is not assigned yet, and one that holds a value
Unbound == [bound |-> FALSE]

Bound(value) == [bound |-> TRUE, val |-> value]

\* A call of _scrape_article that has assigned none of its locals
NoLocals ==
    /\ timeout = [u \in Articles |-> 0]
    /\ article_data = [u \in Articles |-> Unbound]
    /\ markdown_content = [u \in Articles |-> Unbound]

\* article_data['content'] as parse_article returns it: nothing, or the markup
\* of the content region
Contents == {<<>>, <<"<", "p", ">", "P", "i", "n", "o", "u", "t", "<", "/", "p", ">">>}

\* What converter.convert returns: the Markdown, white space only, or the
\* empty string of its except clause
Markdowns == {<<"P", "i", "n", "o", "u", "t">>, <<" ", "\n">>, <<>>}

\* not markdown_content.strip()
IsBlank(text) == \A i \in 1..Len(text) : text[i] \in {" ", "\t", "\n", "\r"}

Init ==
    /\ phase = "scraping"
    /\ pc = [u \in Articles |-> "waiting"]
    /\ retry = [u \in Articles |-> 0]
    /\ navCount = [u \in Articles |-> 0]
    /\ navTimeouts = [u \in Articles |-> 0]
    /\ scraped_urls = {}
    /\ failed_urls = {}
    /\ sem = CONCURRENT_DOWNLOADS
    /\ failed_file = <<>>
    /\ faults = 0
    /\ contexts = 0
    /\ NoLocals
    /\ call = [fn |-> "none"]
    /\ ret = [done |-> FALSE]
    /\ CrawlerIdle

\* An awaited operation raises, or returns normally.
Fault == faults < MaxFaults /\ faults' = faults + 1

NoFault == UNCHANGED faults

\* A semaphore that never blocks.
SemaphoreFree_Unbounded(value) == TRUE

\* async with semaphore: a permit can be taken when the value is positive.
SemaphoreFree(value) == value > 0

\* An off-by-one retry test.
ShouldRetry_OneMore(retry_count) == retry_count <= MAX_RETRIES

\* if retry_count < config.MAX_RETRIES
ShouldRetry(retry_count) == retry_count < MAX_RETRIES

\* The entry of _scrape_article: return at once for a scraped URL, otherwise run
\* up to the first await, browser.new_context.
EnterPc(u) == IF u \in scraped_urls THEN "delay" ELSE "open"

\* A handler that gives up without recording the URL.
HandleError_Unrecorded(u) ==
    IF ShouldRetry(retry[u])
    THEN /\ pc' = [pc EXCEPT ![u] = "cooldown"]
         /\ UNCHANGED failed_urls
    ELSE /\ pc' = [pc EXCEPT ![u] = "delay"]
         /\ UNCHANGED failed_urls

\* A handler that lets the exception leave the task.
HandleError_Propagates(u) ==
    /\ pc' = [pc EXCEPT ![u] = "raised"]
    /\ UNCHANGED failed_urls

\* except Exception: sleep and recurse, or record the URL as failed and return
\* to _scrape_article_with_semaphore, which sleeps REQUEST_DELAY.
HandleError(u) ==
    IF ShouldRetry(retry[u])
    THEN /\ pc' = [pc EXCEPT ![u] = "cooldown"]
         /\ UNCHANGED failed_urls
    ELSE /\ failed_urls' = failed_urls \cup {u}
         /\ pc' = [pc EXCEPT ![u] = "delay"]

\* output_path.write_text and scraped_urls.add, or the exception of a failed
\* write, which leaves the inner try with that exception pending.
WriteFile(u) ==
    \/ /\ scraped_urls' = scraped_urls \cup {u}
       /\ pc' = [pc EXCEPT ![u] = "close_ok"]
       /\ NoFault
    \/ /\ pc' = [pc EXCEPT ![u] = "close_werr"]
       /\ UNCHANGED scraped_urls
       /\ Fault

\* The articles are numbered in the order in which as_completed starts their
\* tasks; asyncio.Semaphore admits its waiters first come, first served.
NextWaiting(u) == pc[u] = "waiting" /\ \A v \in Articles : pc[v] = "waiting" => u <= v

Acquire(u) ==
    /\ phase = "scraping"
    /\ NextWaiting(u)
    /\ SemaphoreFree(sem)
    /\ sem' = sem - 1
    /\ pc' = [pc EXCEPT ![u] = EnterPc(u)]
    /\ UNCHANGED <<phase, retry, navCount, navTimeouts, scraped_urls, failed_urls,
                   failed_file, faults, contexts>>
    /\ UNCHANGED <<attemptVars, fnVars, crawlVars>>

\* browser.new_context and context.new_page, both outside the inner try: an error
\* of either goes straight to the handler, past the finally that closes the
\* context, which the error of new_page leaves open.
Open(u) ==
    /\ pc[u] = "open"
    /\ \/ /\ pc' = [pc EXCEPT ![u] = "goto"]
          /\ contexts' = contexts + 1
          /\ UNCHANGED failed_urls
          /\ NoFault
       \/ /\ HandleError(u)
          /\ UNCHANGED contexts
          /\ Fault
       \/ /\ HandleError(u)
          /\ contexts' = contexts + 1
          /\ Fault
    /\ UNCHANGED <<phase, retry, navCount, navTimeouts, scraped_urls, sem, failed_file>>
    /\ UNCHANGED <<attemptVars, fnVars, crawlVars>>

\* A timeout that does not grow with the attempts
NavigationTimeout_Fixed(retry_count) == TIMEOUT

\* timeout = config.TIMEOUT * (retry_count + 1)
NavigationTimeout(retry_count) == TIMEOUT * (retry_count + 1)

Goto(u) ==
    /\ pc[u] = "goto"
    /\ navCount' = [navCount EXCEPT ![u] = @ + 1]
    /\ timeout' = [timeout EXCEPT ![u] = NavigationTimeout(retry[u])]
    /\ UNCHANGED <<article_data, markdown_content>>
    /\ \/ /\ pc' = [pc EXCEPT ![u] = "loaded"]
          /\ UNCHANGED navTimeouts
          /\ NoFault
       \/ /\ pc' = [pc EXCEPT ![u] = "close_err"]
          /\ navTimeouts' = [navTimeouts EXCEPT ![u] = @ + 1]
          /\ Fault
    /\ UNCHANGED <<phase, retry, scraped_urls, failed_urls, sem, failed_file, contexts>>
    /\ UNCHANGED <<fnVars, crawlVars>>

\* convert, the emptiness test, create_output_path; with no image to process
\* the file is written in the same step.
Convert(u, markdown) ==
    /\ markdown_content' = [markdown_content EXCEPT ![u] = Bound(markdown)]
    /\ IF IsBlank(markdown)
       THEN /\ pc' = [pc EXCEPT ![u] = "close_err"]
            /\ UNCHANGED scraped_urls
            /\ Fault
       ELSE \/ /\ DOWNLOAD_IMAGES
               /\ pc' = [pc EXCEPT ![u] = "images"]
               /\ UNCHANGED scraped_urls
               /\ NoFault
            \/ WriteFile(u)

\* page.content, which may raise, parse_article, the test of the content,
\* clean_content, and the conversion
Extract(u) ==
    /\ pc[u] = "loaded"
    /\ \/ /\ pc' = [pc EXCEPT ![u] = "close_err"]
          /\ UNCHANGED <<scraped_urls, article_data, markdown_content>>
          /\ Fault
       \/ \E content \in Contents :
            /\ article_data' = [article_data EXCEPT ![u] = Bound(content)]
            /\ IF content = <<>>
               THEN /\ pc' = [pc EXCEPT ![u] = "close_err"]
                    /\ UNCHANGED <<scraped_urls, markdown_content>>
                    /\ Fault
               ELSE \E markdown \in Markdowns : Convert(u, markdown)
    /\ UNCHANGED <<phase, retry, navCount, navTimeouts, failed_urls, sem, failed_file,
                   contexts, timeout>>
    /\ UNCHANGED <<fnVars, crawlVars>>

ProcessImages(u) ==
    /\ pc[u] = "images"
    /\ \/ /\ pc' = [pc EXCEPT ![u] = "close_err"]
          /\ UNCHANGED scraped_urls
          /\ Fault
       \/ WriteFile(u)
    /\ UNCHANGED <<phase, retry, navCount, navTimeouts, failed_urls, sem, failed_file,
                   contexts>>
    /\ UNCHANGED <<attemptVars, fnVars, crawlVars>>

\* finally: page.close and context.close. Both return and the attempt ends as the
\* inner try left it, or context.close raises, or page.close raises and
\* context.close is not reached.
Close(u) ==
    /\ pc[u] \in {"close_ok", "close_err", "close_werr"}
    /\ \/ /\ pc[u] = "close_ok"
          /\ pc' = [pc EXCEPT ![u] = "delay"]
          /\ contexts' = contexts - 1
          /\ UNCHANGED failed_urls
          /\ NoFault
       \/ /\ pc[u] # "close_ok"
          /\ HandleError(u)
          /\ contexts' = contexts - 1
          /\ NoFault
       \/ /\ HandleError(u)
          /\ contexts' = contexts - 1
          /\ Fault
       \/ /\ HandleError(u)
          /\ UNCHANGED contexts
          /\ Fault
    /\ UNCHANGED <<phase, retry, navCount, navTimeouts, scraped_urls, sem, failed_file>>
    /\ UNCHANGED <<attemptVars, fnVars, crawlVars>>

\* The locals of a call that begins, or of a task that is gone
ForgetLocals(u) ==
    /\ timeout' = [timeout EXCEPT ![u] = 0]
    /\ article_data' = [article_data EXCEPT ![u] = Unbound]
    /\ markdown_content' = [markdown_content EXCEPT ![u] = Unbound]

\* asyncio.sleep(2), then _scrape_article(url, retry_count + 1).
Cooldown(u) ==
    /\ pc[u] = "cooldown"
    /\ retry' = [retry EXCEPT ![u] = @ + 1]
    /\ pc' = [pc EXCEPT ![u] = EnterPc(u)]
    /\ ForgetLocals(u)
    /\ UNCHANGED <<phase, navCount, navTimeouts, scraped_urls, failed_urls, sem,
                   failed_file, faults, contexts>>
    /\ UNCHANGED <<fnVars, crawlVars>>

\* A task that ends without giving its permit back.
Release_Leak(u) ==
    /\ pc[u] = "delay"
    /\ pc' = [pc EXCEPT ![u] = "done"]
    /\ retry' = [retry EXCEPT ![u] = 0]
    /\ ForgetLocals(u)
    /\ UNCHANGED <<phase, navCount, navTimeouts, scraped_urls, failed_urls,
                   failed_file, faults, contexts, sem>>
    /\ UNCHANGED <<fnVars, crawlVars>>

\* asyncio.sleep(REQUEST_DELAY) inside the async with, then the permit goes back
\* and the coroutine, with its retry_count, is gone.
Release(u) ==
    /\ pc[u] = "delay"
    /\ sem' = sem + 1
    /\ pc' = [pc EXCEPT ![u] = "done"]
    /\ retry' = [retry EXCEPT ![u] = 0]
    /\ ForgetLocals(u)
    /\ UNCHANGED <<phase, navCount, navTimeouts, scraped_urls, failed_urls,
                   failed_file, faults, contexts>>
    /\ UNCHANGED <<fnVars, crawlVars>>

\* A barrier that waits for the first task only.
AllTasksDone_First == \E u \in Articles : pc[u] = "done"

\* for task in asyncio.as_completed(tasks): await task
AllTasksDone == \A u \in Articles : pc[u] = "done"

StartIndex ==
    /\ phase = "scraping"
    /\ AllTasksDone
    /\ phase' = "index"
    /\ UNCHANGED <<pc, retry, navCount, navTimeouts, scraped_urls, failed_urls, sem,
                   failed_file, faults, contexts>>
    /\ UNCHANGED <<attemptVars, fnVars, crawlVars>>

GenerateIndex ==
    /\ phase = "index"
    /\ phase' = "summary"
    /\ UNCHANGED <<pc, retry, navCount, navTimeouts, scraped_urls, failed_urls, sem,
                   failed_file, faults, contexts>>
    /\ UNCHANGED <<attemptVars, fnVars, crawlVars>>

RECURSIVE SetToSeq(_)
SetToSeq(S) ==
    IF S = {} THEN <<>>
    ELSE LET x == CHOOSE y \in S : TRUE IN <<x>> \o SetToSeq(S \ {x})

\* for url in self.failed_urls: f.write(url), when the set is not empty.
Summary ==
    /\ phase = "summary"
    /\ failed_file' = IF failed_urls # {} THEN SetToSeq(failed_urls) ELSE failed_file
    /\ phase' = "done"
    /\ UNCHANGED <<pc, retry, navCount, navTimeouts, scraped_urls, failed_urls, sem,
                   faults, contexts>>
    /\ UNCHANGED <<attemptVars, fnVars, crawlVars>>

Next ==
    \/ \E u \in Articles :
          \/ Acquire(u)
          \/ Open(u)
          \/ Goto(u)
          \/ Extract(u)
          \/ ProcessImages(u)
          \/ Close(u)
          \/ Cooldown(u)
          \/ Release(u)
    \/ StartIndex
    \/ GenerateIndex
    \/ Summary

Spec == Init /\ [][Next]_vars

----------------------------------------------------------------------------
(* Strings.  A string is the sequence of its characters, each a one-character *)
(* string, so that slicing, searching and splitting are what Python does.     *)

UpperCase ==
    <<"A", "B", "C", "D", "E", "F", "G", "H", "I", "J", "K", "L", "M", "N", "O", "P",
    "Q", "R", "S", "T", "U", "V", "W", "X", "Y", "Z">>

LowerCase ==
    <<"a", "b", "c", "d", "e", "f", "g", "h", "i", "j", "k", "l", "m", "n", "o", "p",
    "q", "r", "s", "t", "u", "v", "w", "x", "y", "z">>

Digits == <<"0", "1", "2", "3", "4", "5", "6", "7", "8", "9">>

LowerChar(c) ==
    IF \E i \in 1..Len(UpperCase) : UpperCase[i] = c
    THEN LowerCase[CHOOSE i \in 1..Len(UpperCase) : UpperCase[i] = c]
    ELSE c

\* str.lower
Lower(s) == [i \in 1..Len(s) |-> LowerChar(s[i])]

\* p occurs in s at index i
IsAt(s, p, i) == \A j \in 1..Len(p) : s[i + j - 1] = p[j]

\* p in s
Contains(s, p) == \E i \in 1..(Len(s) - Len(p) + 1) : IsAt(s, p, i)

\* s.startswith(p), s.endswith(p)
StartsWith(s, p) == Len(p) <= Len(s) /\ IsAt(s, p, 1)

EndsWith(s, p) == Len(p) <= Len(s) /\ IsAt(s, p, Len(s) - Len(p) + 1)

\* s.find(p) + 1: the index of the first occurrence, 0 when there is none
Find(s, p) ==
    IF Contains(s, p)
    THEN CHOOSE i \in 1..(Len(s) - Len(p) + 1) :
            IsAt(s, p, i) /\ \A k \in 1..(i - 1) : ~IsAt(s, p, k)
    ELSE 0

\* s[:n] and s[n:]
Take(s, n) == SubSeq(s, 1, IF n < Len(s) THEN n ELSE Len(s))

Drop(s, n) == SubSeq(s, n + 1, Len(s))

\* s.split(c) for a one-character separator
RECURSIVE Split(_, _)
Split(s, c) ==
    LET i == Find(s, <<c>>)
    IN IF i = 0 THEN <<s>> ELSE <<Take(s, i - 1)>> \o Split(Drop(s, i), c)

\* s.rsplit(c, 1)[0]
BeforeLast(s, c) ==
    IF \E i \in 1..Len(s) : s[i] = c
    THEN Take(s, (CHOOSE i \in 1..Len(s) : s[i] = c /\ \A k \in (i + 1)..Len(s) : s[k] # c) - 1)
    ELSE s

\* s.lstrip(c), s.rstrip(c), s.strip(c) for a set of characters
RECURSIVE LStrip(_, _)
LStrip(s, cs) == IF s # <<>> /\ Head(s) \in cs THEN LStrip(Tail(s), cs) ELSE s

RECURSIVE RStrip(_, _)
RStrip(s, cs) ==
    IF s # <<>> /\ s[Len(s)] \in cs THEN RStrip(Take(s, Len(s) - 1), cs) ELSE s

Strip(s, cs) == LStrip(RStrip(s, cs), cs)

\* c.join(parts)
RECURSIVE Join(_, _)
Join(parts, c) ==
    IF parts = <<>> THEN <<>>
    ELSE IF Len(parts) = 1 THEN parts[1]
    ELSE parts[1] \o <<c>> \o Join(Tail(parts), c)

\* The element of a one-element set: Only({F(x) : x \in {e}}) is F(x) for x = e
Only(S) == CHOOSE x \in S : TRUE

\* All strings over an alphabet of at most n characters
StringsUpTo(alphabet, n) == UNION {[1..k -> alphabet] : k \in 0..n}

----------------------------------------------------------------------------
(* URLs: urllib.parse as src/src/utils.py uses it, normalize_url, is_valid_url *)

Range(seq) == {seq[i] : i \in 1..Len(seq)}

Letters == Range(UpperCase) \cup Range(LowerCase)

SchemeChars == Letters \cup Range(Digits) \cup {"+", "-", "."}

\* The schemes of urllib.parse.uses_netloc and uses_relative that occur here.
NetlocSchemes == {<<"h", "t", "t", "p">>, <<"h", "t", "t", "p", "s">>, <<"f", "t", "p">>}

\* The index of the first character of s that is in cs, Len(s) + 1 without one
FirstOf(s, cs) ==
    IF \E i \in 1..Len(s) : s[i] \in cs
    THEN CHOOSE i \in 1..Len(s) : s[i] \in cs /\ \A k \in 1..(i - 1) : s[k] \notin cs
    ELSE Len(s) + 1

\* urlsplit: scheme, netloc, path, query, fragment
urlsplit(url) ==
    LET colon == Find(url, <<":">>)
        n == IF colon > 1 /\ url[1] \in Letters
                /\ \A k \in 1..(colon - 1) : url[k] \in SchemeChars
             THEN colon - 1 ELSE 0
        r1 == IF n > 0 THEN Drop(url, n + 1) ELSE url
        hasNetloc == StartsWith(r1, <<"/", "/">>)
        r1b == Drop(r1, 2)
        d == FirstOf(r1b, {"/", "?", "#"})
        r2 == IF hasNetloc THEN Drop(r1b, d - 1) ELSE r1
        h == Find(r2, <<"#">>)
        r3 == IF h > 0 THEN Take(r2, h - 1) ELSE r2
        q == Find(r3, <<"?">>)
    IN [scheme   |-> Lower(Take(url, n)),
        netloc   |-> IF hasNetloc THEN Take(r1b, d - 1) ELSE <<>>,
        path     |-> IF q > 0 THEN Take(r3, q - 1) ELSE r3,
        query    |-> IF q > 0 THEN Drop(r3, q) ELSE <<>>,
        fragment |-> IF h > 0 THEN Drop(r2, h) ELSE <<>>]

\* urlunsplit, which geturl applies to the parts
urlunsplit(p) ==
    LET withNetloc ==
            p.netloc # <<>>
            \/ (p.scheme \in NetlocSchemes /\ ~StartsWith(p.path, <<"/", "/">>))
        path1 == IF withNetloc
                 THEN <<"/", "/">> \o p.netloc
                      \o (IF p.path # <<>> /\ Head(p.path) # "/" THEN <<"/">> ELSE <<>>)
                      \o p.path
                 ELSE p.path
        u1 == IF p.scheme # <<>> THEN p.scheme \o <<":">> \o path1 ELSE path1
        u2 == IF p.query # <<>> THEN u1 \o <<"?">> \o p.query ELSE u1
    IN IF p.fragment # <<>> THEN u2 \o <<"#">> \o p.fragment ELSE u2

\* The loop of urljoin over the merged path segments: "." is dropped and ".."
\* removes the segment before it.
RECURSIVE ResolveDots(_, _)
ResolveDots(segments, resolved) ==
    IF segments = <<>> THEN resolved
    ELSE IF Head(segments) = <<".", ".">>
         THEN ResolveDots(Tail(segments), Take(resolved, Len(resolved) - 1))
    ELSE IF Head(segments) = <<".">>
         THEN ResolveDots(Tail(segments), resolved)
    ELSE ResolveDots(Tail(segments), Append(resolved, Head(segments)))

\* filter(None, parts)
RECURSIVE DropEmpty(_)
DropEmpty(parts) ==
    IF parts = <<>> THEN <<>>
    ELSE (IF Head(parts) = <<>> THEN <<>> ELSE <<Head(parts)>>) \o DropEmpty(Tail(parts))

\* urljoin: base_parts, the segments of the base path without its last one
BaseParts(bpath) ==
    LET bp == Split(bpath, "/")
    IN IF bp[Len(bp)] # <<>> THEN Take(bp, Len(bp) - 1) ELSE bp

\* urljoin: segments[1:-1] = filter(None, segments[1:-1])
SquashMiddle(segs) ==
    IF Len(segs) > 2
    THEN <<segs[1]>> \o DropEmpty(SubSeq(segs, 2, Len(segs) - 1)) \o <<segs[Len(segs)]>>
    ELSE segs

\* urljoin: the segments of a non-empty path resolved against the base path
JoinSegments(bpath, path) ==
    IF Head(path) = "/" THEN Split(path, "/")
    ELSE SquashMiddle(BaseParts(bpath) \o Split(path, "/"))

\* urljoin: '/'.join(resolved_path) or '/'
ResolvedPath(segments) ==
    LET resolved == ResolveDots(segments, <<>>)
        joined == Join(IF segments[Len(segments)] \in {<<".">>, <<".", ".">>}
                       THEN Append(resolved, <<>>) ELSE resolved, "/")
    IN IF joined = <<>> THEN <<"/">> ELSE joined

\* urljoin: url parsed with the scheme of the base as its default
ParseRelative(url, bscheme) ==
    LET u == urlsplit(url)
    IN IF u.scheme = <<>> THEN [u EXCEPT !.scheme = bscheme] ELSE u

\* urljoin: the parts of the base and of the url, both non-empty, put together
JoinParts(b, u, url) ==
    IF u.scheme # b.scheme \/ u.scheme \notin NetlocSchemes THEN url
    ELSE IF u.netloc # <<>> THEN urlunsplit(u)
    ELSE IF u.path = <<>>
         THEN urlunsplit([u EXCEPT !.netloc = b.netloc, !.path = b.path,
                                   !.query = IF u.query = <<>> THEN b.query ELSE u.query])
    ELSE urlunsplit([u EXCEPT !.netloc = b.netloc,
                              !.path = ResolvedPath(JoinSegments(b.path, u.path))])

\* urljoin(base, url)
urljoin(base, url) ==
    IF base = <<>> THEN url
    ELSE IF url = <<>> THEN base
    ELSE Only({Only({JoinParts(b, u, url) : u \in {ParseRelative(url, b.scheme)}}) :
                b \in {urlsplit(base)}})

\* normalized[:-1] if normalized.endswith('/')
StripOneSlash(normalized) ==
    IF EndsWith(normalized, <<"/">>)
    THEN Take(normalized, Len(normalized) - 1)
    ELSE normalized

\* normalize_url(url, base_url=None): a base_url of None is the empty string
\* here.  joined and parsed name the values of the function's local variables.
normalize_url(url, base_url) ==
    Only({StripOneSlash(urlunsplit([parsed EXCEPT !.fragment = <<>>])) :
            parsed \in {urlsplit(joined) :
                joined \in {IF base_url # <<>> THEN urljoin(base_url, url) ELSE url}}})

\* config.EXCLUDE_PATTERNS
EXCLUDE_PATTERNS ==
    <<<<"l", "o", "g", "i", "n">>,
      <<"s", "i", "g", "n", "u", "p">>,
      <<"a", "c", "c", "o", "u", "n", "t">>,
      <<"p", "o", "r", "t", "a", "l", "/", "a", "p", "i">>>>

\* 'support.haltech.com'
TARGET_DOMAIN ==
    <<"s", "u", "p", "p", "o", "r", "t", ".", "h", "a", "l", "t", "e", "c", "h", ".",
    "c", "o", "m">>

\* is_valid_url(url)
is_valid_url(url) ==
    IF url = <<>> THEN FALSE
    ELSE IF ~StartsWith(urlsplit(url).netloc, TARGET_DOMAIN) THEN FALSE
    ELSE IF \E i \in 1..Len(EXCLUDE_PATTERNS) : Contains(Lower(url), EXCLUDE_PATTERNS[i])
         THEN FALSE
    ELSE TRUE

----------------------------------------------------------------------------
(* Properties of the fetch scheduler *)

ScrapePhaseOver == phase \in {"index", "summary", "done"}

Occurrences(seq, x) == Cardinality({i \in 1..Len(seq) : seq[i] = x})

\* C1: after _scrape_articles has run over the article set, scraped_urls and
\* failed_urls partition it: their union is the set and they share no URL,
\* whichever attempt fails at whichever step.
C1_Partition ==
    ScrapePhaseOver =>
        /\ scraped_urls \cup failed_urls = Articles
        /\ scraped_urls \cap failed_urls = {}

\* C2: no article URL is navigated to more than MAX_RETRIES + 1 times in a run.
C2_RetryBound == \A u \in Articles : navCount[u] <= MAX_RETRIES + 1

\* A URL whose every allowed attempt reached the navigation.
C2_Witness == \E u \in Articles : navCount[u] = MAX_RETRIES + 1

\* C3: at every instant at most CONCURRENT_DOWNLOADS article pipelines are
\* started and not settled, retry cooldowns and image processing included, and
\* each of them holds exactly one permit of the semaphore.
C3_ConcurrencyBound ==
    /\ Cardinality(InFlight) <= CONCURRENT_DOWNLOADS
    /\ sem = CONCURRENT_DOWNLOADS - Cardinality(InFlight)

\* All permits taken, one by an article in its retry cooldown and one by an
\* article processing images, while another article waits for a permit.
C3_Witness ==
    /\ Cardinality(InFlight) = CONCURRENT_DOWNLOADS
    /\ \E u \in Articles : pc[u] = "waiting"
    /\ \E u \in Articles : pc[u] = "cooldown"
    /\ \E u \in Articles : pc[u] = "images"

\* C4: a URL whose navigation timed out on all MAX_RETRIES + 1 attempts is in
\* failed_urls once its task has settled, is navigated to no further time, and
\* is one line, exactly once, of the failed-URL file of the completed run.
C4_TimeoutsEndFailed ==
    \A u \in Articles :
        navTimeouts[u] = MAX_RETRIES + 1 =>
            /\ navCount[u] = MAX_RETRIES + 1
            /\ pc[u] \in {"close_err", "delay", "done"}
            /\ pc[u] \in {"delay", "done"} => u \in failed_urls /\ u \notin scraped_urls
            /\ phase = "done" => Occurrences(failed_file, u) = 1

\* A completed run in which some URL timed out on every attempt.
C4_Witness ==
    /\ phase = "done"
    /\ \E u \in Articles : navTimeouts[u] = MAX_RETRIES + 1

\* C5: while the index builder runs, and after it, every dispatched article task
\* has finished and its URL is scraped or failed: no pipeline is in flight.
C5_IndexAfterBarrier ==
    ScrapePhaseOver =>
        /\ InFlight = {}
        /\ \A u \in Articles : pc[u] = "done" /\ u \in scraped_urls \cup failed_urls

\* The index builder running after a run with a scraped and a failed article.
C5_Witness ==
    /\ phase = "index"
    /\ scraped_urls # {}
    /\ failed_urls # {}

\* C14: an exception raised in an article's pipeline stays in its task: every
\* task is waiting, running or returned, the run is never stuck before its
\* summary, and a completed run has settled every URL as scraped or failed.
C14_ExceptionsContained ==
    /\ \A u \in Articles : pc[u] \in {"waiting", "done"} \cup InFlightPcs
    /\ phase # "done" => ENABLED Next
    /\ phase = "done" =>
            \A u \in Articles : pc[u] = "done" /\ u \in scraped_urls \cup failed_urls

\* A completed run in which every allowed error was raised, with a scraped and a
\* failed article.
C14_Witness ==
    /\ phase = "done"
    /\ faults = MaxFaults
    /\ scraped_urls # {}
    /\ failed_urls # {}
    /\ failed_file # <<>>

\* C15: an attempt whose file write failed is the last attempt of its URL: the
\* task goes on to its end with the URL recorded as failed, never to a retry.
C15_WriteFailureNotRetried ==
    [][\A u \in Articles :
          (pc[u] = "close_werr" /\ pc'[u] # "close_werr")
              => (pc'[u] = "delay" /\ u \in failed_urls')]_vars

\* The positions of an attempt between new_context and context.close
ContextPcs == {"goto", "loaded", "images", "close_ok", "close_err", "close_werr"}

\* C16: the open browser contexts are those of the attempts under way, so an
\* attempt that has ended has left none open, and none is open when the run
\* completes.
C16_ContextsClosed ==
    /\ contexts = Cardinality({u \in Articles : pc[u] \in ContextPcs})
    /\ phase = "done" => contexts = 0

\* C18 as stated: a task waiting out REQUEST_DELAY has given its permit back,
\* so the permits taken are those of the in-flight tasks not in their delay.
C18_DelayAfterRelease ==
    sem = CONCURRENT_DOWNLOADS
            - Cardinality({u \in Articles : pc[u] \in InFlightPcs \ {"delay"}})

\* C18: a task enters its REQUEST_DELAY, after a scraped or a failed article,
\* with its permit still taken, and the permit goes back when the delay is over
\* and the task ends.
C18_ReleaseAfterDelay ==
    [][\A u \in Articles :
          /\ (pc[u] # "delay" /\ pc'[u] = "delay") => sem' = sem
          /\ (pc[u] = "delay" /\ pc'[u] # "delay")
                => (pc'[u] = "done" /\ sem' = sem + 1)]_vars

\* A failed article in its delay while every permit is taken and another
\* article waits for one.
C18_Witness ==
    /\ sem = 0
    /\ \E u \in Articles : pc[u] = "delay" /\ u \in failed_urls
    /\ \E u \in Articles : pc[u] = "waiting"

\* C23: a URL enters scraped_urls only at the write that ends an attempt whose
\* steps ran in order (new context, navigation, extraction and conversion,
\* image processing when there are images), and a retry starts again at
\* new_context with the next retry_count.
C23_PipelineInOneAttempt ==
    [][\A u \in Articles :
        /\ (u \in scraped_urls' /\ u \notin scraped_urls) =>
                /\ pc[u] \in {"loaded", "images"}
                /\ pc'[u] = "close_ok"
                /\ article_data'[u].bound /\ article_data'[u].val # <<>>
                /\ markdown_content'[u].bound /\ ~IsBlank(markdown_content'[u].val)
                /\ timeout'[u] = NavigationTimeout(retry[u])
        /\ (pc'[u] = "images" /\ pc[u] # "images") => pc[u] = "loaded"
        /\ (pc'[u] = "loaded" /\ pc[u] # "loaded") => pc[u] = "goto"
        /\ (pc'[u] = "goto" /\ pc[u] # "goto") =>
                pc[u] = "open" /\ contexts' = contexts + 1
        /\ (pc[u] = "cooldown" /\ pc'[u] # "cooldown") =>
                pc'[u] = "open" /\ retry'[u] = retry[u] + 1]_vars

\* The attempt of u found no content, or its Markdown is blank
FoundNothing(u) ==
    \/ article_data[u].bound /\ article_data[u].val = <<>>
    \/ markdown_content[u].bound /\ IsBlank(markdown_content[u].val)

\* C24: an attempt that finds no content, or whose Markdown is empty or white
\* space only, writes nothing and ends in the handler, which retries while
\* retry_count < MAX_RETRIES and records the URL as failed otherwise; attempt k
\* navigates with timeout TIMEOUT * (k + 1), and retry_count grows only at the
\* end of the cooldown.
C24_EmptyCausesRetry ==
    [][\A u \in Articles :
        /\ (pc[u] = "loaded" /\ pc'[u] # "loaded" /\ FoundNothing(u)') =>
                pc'[u] = "close_err" /\ scraped_urls' = scraped_urls
        /\ (pc[u] = "close_err" /\ pc'[u] # "close_err") =>
                IF retry[u] < MAX_RETRIES
                THEN pc'[u] = "cooldown" /\ u \notin failed_urls'
                ELSE pc'[u] = "delay" /\ u \in failed_urls'
        /\ (pc[u] = "goto" /\ pc'[u] # "goto") =>
                /\ retry[u] \in 0..MAX_RETRIES
                /\ timeout'[u] = TIMEOUT * (retry[u] + 1)
        /\ retry'[u] > retry[u] => pc[u] = "cooldown" /\ retry'[u] = retry[u] + 1]_vars

C24_Witness ==
    \E u, v \in Articles :
        /\ pc[u] = "cooldown" /\ retry[u] = 1 /\ timeout[u] = 2 * TIMEOUT
        /\ markdown_content[u] = Bound(<<>>)
        /\ pc[v] = "cooldown" /\ article_data[v] = Bound(<<>>)
        /\ scraped_urls = {}

----------------------------------------------------------------------------
(* The URL functions on their own: one call, from its arguments to its result *)

\* The scheduler is not running while a single function is exercised.
SchedulerIdle ==
    /\ phase = "idle"
    /\ pc = [u \in Articles |-> "waiting"]
    /\ retry = [u \in Articles |-> 0]
    /\ navCount = [u \in Articles |-> 0]
    /\ navTimeouts = [u \in Articles |-> 0]
    /\ scraped_urls = {}
    /\ failed_urls = {}
    /\ sem = CONCURRENT_DOWNLOADS
    /\ failed_file = <<>>
    /\ faults = 0
    /\ contexts = 0
    /\ NoLocals

\* One function is exercised: neither the scheduler nor the crawler runs.
ProgramIdle == SchedulerIdle /\ CrawlerIdle

MaxTail == 3

MaxSegs == 2

\* config.BASE_URL
BASE_URL ==
    <<"h", "t", "t", "p", "s", ":", "/", "/", "s", "u", "p", "p", "o", "r", "t", ".",
    "h", "a", "l", "t", "e", "c", "h", ".", "c", "o", "m">>

\* What follows the origin in the URLs that are normalized: slashes, a
\* fragment or query marker, and a path character.
TailAlphabet == {"/", "#", "?", "a"}

NormalizeInputs == {BASE_URL \o t : t \in StringsUpTo(TailAlphabet, MaxTail)}

InitNormalize ==
    /\ ProgramIdle
    /\ call \in {[fn |-> "normalize_url", url |-> u, base_url |-> <<>>] :
                    u \in NormalizeInputs}
    /\ ret = [done |-> FALSE]

CallNormalize ==
    /\ call.fn = "normalize_url"
    /\ ~ret.done
    /\ ret' = [done |-> TRUE, val |-> normalize_url(call.url, call.base_url)]
    /\ UNCHANGED <<call, schedVars, crawlVars>>

NextNormalize == CallNormalize

SpecNormalize == InitNormalize /\ [][NextNormalize]_vars

\* Hosts a link on a page can point to
LinkHosts ==
    {TARGET_DOMAIN,
     TARGET_DOMAIN \o <<".", "e", "v", "i", "l", ".", "i", "o">>,
     <<"w", "w", "w", ".", "h", "a", "l", "t", "e", "c", "h", ".", "c", "o", "m">>}

\* Path segments of links, some of them hitting config.EXCLUDE_PATTERNS
LinkSegments ==
    {<<"k", "b">>, <<"L", "o", "g", "i", "n">>, <<"s", "i", "g", "n", "u", "p">>,
     <<"A", "C", "C", "O", "U", "N", "T">>, <<"p", "o", "r", "t", "a", "l">>, <<"a", "p", "i">>}

RECURSIVE PathOf(_)
PathOf(segs) ==
    IF segs = <<>> THEN <<>> ELSE <<"/">> \o Head(segs) \o PathOf(Tail(segs))

ValidInputs ==
    {<<>>} \cup
    {<<"h", "t", "t", "p", "s", ":", "/", "/">> \o h \o PathOf(segs) :
        h \in LinkHosts, segs \in StringsUpTo(LinkSegments, MaxSegs)}

InitValid ==
    /\ ProgramIdle
    /\ call \in {[fn |-> "is_valid_url", url |-> u] : u \in ValidInputs}
    /\ ret = [done |-> FALSE]

CallValid ==
    /\ call.fn = "is_valid_url"
    /\ ~ret.done
    /\ ret' = [done |-> TRUE, val |-> is_valid_url(call.url)]
    /\ UNCHANGED <<call, schedVars, crawlVars>>

NextValid == CallValid

SpecValid == InitValid /\ [][NextValid]_vars

----------------------------------------------------------------------------
(* Properties of the URL functions *)

\* C6: normalize_url is idempotent: normalizing its result again gives the
\* same result, for URLs ending in any number of slashes and URLs with a
\* fragment.
C6_NormalizeIdempotent ==
    (call.fn = "normalize_url" /\ ret.done) =>
        normalize_url(ret.val, <<>>) = ret.val

\* A URL contains one of the configured exclusion substrings, compared
\* case-insensitively.
Excluded(url) ==
    \E i \in 1..Len(EXCLUDE_PATTERNS) : Contains(Lower(url), EXCLUDE_PATTERNS[i])

\* C7: is_valid_url rejects every URL whose host is not support.haltech.com,
\* hosts that only begin with that string included, and every URL that
\* contains an exclusion substring in any letter case.
C7_RejectsForeignAndExcluded ==
    (call.fn = "is_valid_url" /\ ret.done) =>
        /\ (call.url # <<>> /\ urlsplit(call.url).netloc # TARGET_DOMAIN) => ~ret.val
        /\ (call.url = <<>> \/ Excluded(call.url)) => ~ret.val

----------------------------------------------------------------------------
(* The category classifier, src/src/category_mapper.py.  A mapping table is  *)
(* the sequence of its (keyword, category) pairs in declaration order, which  *)
(* is the order a dict is iterated in.                                        *)

ENGINE_MAPPINGS ==
  <<
    <<<<"b", "m", "w">>,
      <<"t", "e", "c", "h", "n", "i", "c", "a", "l", "-", "l", "i", "b", "r", "a", "r", "y", "/", "e", "n", "g", "i", "n", "e", "s", "/", "b", "m", "w">>>>,
    <<<<"m", "5", "0">>,
      <<"t", "e", "c", "h", "n", "i", "c", "a", "l", "-", "l", "i", "b", "r", "a", "r", "y", "/", "e", "n", "g", "i", "n", "e", "s", "/", "b", "m", "w">>>>,
    <<<<"m", "5", "2">>,
      <<"t", "e", "c", "h", "n", "i", "c", "a", "l", "-", "l", "i", "b", "r", "a", "r", "y", "/", "e", "n", "g", "i", "n", "e", "s", "/", "b", "m", "w">>>>,
    <<<<"m", "5", "4">>,
      <<"t", "e", "c", "h", "n", "i", "c", "a", "l", "-", "l", "i", "b", "r", "a", "r", "y", "/", "e", "n", "g", "i", "n", "e", "s", "/", "b", "m", "w">>>>,
    <<<<"s", "5", "0">>,
      <<"t", "e", "c", "h", "n", "i", "c", "a", "l", "-", "l", "i", "b", "r", "a", "r", "y", "/", "e", "n", "g", "i", "n", "e", "s", "/", "b", "m", "w">>>>,
    <<<<"s", "5", "2">>,
      <<"t", "e", "c", "h", "n", "i", "c", "a", "l", "-", "l", "i", "b", "r", "a", "r", "y", "/", "e", "n", "g", "i", "n", "e", "s", "/", "b", "m", "w">>>>,
    <<<<"s", "5", "4">>,
      <<"t", "e", "c", "h", "n", "i", "c", "a", "l", "-", "l", "i", "b", "r", "a", "r", "y", "/", "e", "n", "g", "i", "n", "e", "s", "/", "b", "m", "w">>>>,
    <<<<"n", "5", "4">>,
      <<"t", "e", "c", "h", "n", "i", "c", "a", "l", "-", "l", "i", "b", "r", "a", "r", "y", "/", "e", "n", "g", "i", "n", "e", "s", "/", "b", "m", "w">>>>,
    <<<<"n", "5", "5">>,
      <<"t", "e", "c", "h", "n", "i", "c", "a", "l", "-", "l", "i", "b", "r", "a", "r", "y", "/", "e", "n", "g", "i", "n", "e", "s", "/", "b", "m", "w">>>>,
    <<<<"f", "o", "r", "d">>,
      <<"t", "e", "c", "h", "n", "i", "c", "a", "l", "-", "l", "i", "b", "r", "a", "r", "y", "/", "e", "n", "g", "i", "n", "e", "s", "/", "f", "o", "r", "d">>>>,
    <<<<"b", "a", "r", "r", "a">>,
      <<"t", "e", "c", "h", "n", "i", "c", "a", "l", "-", "l", "i", "b", "r", "a", "r", "y", "/", "e", "n", "g", "i", "n", "e", "s", "/", "f", "o", "r", "d">>>>,
    <<<<"w", "i", "n", "d", "s", "o", "r">>,
      <<"t", "e", "c", "h", "n", "i", "c", "a", "l", "-", "l", "i", "b", "r", "a", "r", "y", "/", "e", "n", "g", "i", "n", "e", "s", "/", "f", "o", "r", "d">>>>,
    <<<<"m", "o", "d", "u", "l", "a", "r">>,
      <<"t", "e", "c", "h", "n", "i", "c", "a", "l", "-", "l", "i", "b", "r", "a", "r", "y", "/", "e", "n", "g", "i", "n", "e", "s", "/", "f", "o", "r", "d">>>>,
    <<<<"c", "o", "y", "o", "t", "e">>,
      <<"t", "e", "c", "h", "n", "i", "c", "a", "l", "-", "l", "i", "b", "r", "a", "r", "y", "/", "e", "n", "g", "i", "n", "e", "s", "/", "f", "o", "r", "d">>>>,
    <<<<"e", "c", "o", "b", "o", "o", "s", "t">>,
      <<"t", "e", "c", "h", "n", "i", "c", "a", "l", "-", "l", "i", "b", "r", "a", "r", "y", "/", "e", "n", "g", "i", "n", "e", "s", "/", "f", "o", "r", "d">>>>,
    <<<<"h", "o", "n", "d", "a">>,
      <<"t", "e", "c", "h", "n", "i", "c", "a", "l", "-", "l", "i", "b", "r", "a", "r", "y", "/", "e", "n", "g", "i", "n", "e", "s", "/", "h", "o", "n", "d", "a">>>>,
    <<<<"b", "-", "s", "e", "r", "i", "e", "s">>,
      <<"t", "e", "c", "h", "n", "i", "c", "a", "l", "-", "l", "i", "b", "r", "a", "r", "y", "/", "e", "n", "g", "i", "n", "e", "s", "/", "h", "o", "n", "d", "a">>>>,
    <<<<"b", "1", "6">>,
      <<"t", "e", "c", "h", "n", "i", "c", "a", "l", "-", "l", "i", "b", "r", "a", "r", "y", "/", "e", "n", "g", "i", "n", "e", "s", "/", "h", "o", "n", "d", "a">>>>,
    <<<<"b", "1", "8">>,
      <<"t", "e", "c", "h", "n", "i", "c", "a", "l", "-", "l", "i", "b", "r", "a", "r", "y", "/", "e", "n", "g", "i", "n", "e", "s", "/", "h", "o", "n", "d", "a">>>>,
    <<<<"b", "2", "0">>,
      <<"t", "e", "c", "h", "n", "i", "c", "a", "l", "-", "l", "i", "b", "r", "a", "r", "y", "/", "e", "n", "g", "i", "n", "e", "s", "/", "h", "o", "n", "d", "a">>>>,
    <<<<"d", "-", "s", "e", "r", "i", "e", "s">>,
      <<"t", "e", "c", "h", "n", "i", "c", "a", "l", "-", "l", "i", "b", "r", "a", "r", "y", "/", "e", "n", "g", "i", "n", "e", "s", "/", "h", "o", "n", "d", "a">>>>,
    <<<<"d", "1", "6">>,
      <<"t", "e", "c", "h", "n", "i", "c", "a", "l", "-", "l", "i", "b", "r", "a", "r", "y", "/", "e", "n", "g", "i", "n", "e", "s", "/", "h", "o", "n", "d", "a">>>>,
    <<<<"k", "-", "s", "e", "r", "i", "e", "s">>,
      <<"t", "e", "c", "h", "n", "i", "c", "a", "l", "-", "l", "i", "b", "r", "a", "r", "y", "/", "e", "n", "g", "i", "n", "e", "s", "/", "h", "o", "n", "d", "a">>>>,
    <<<<"k", "2", "0">>,
      <<"t", "e", "c", "h", "n", "i", "c", "a", "l", "-", "l", "i", "b", "r", "a", "r", "y", "/", "e", "n", "g", "i", "n", "e", "s", "/", "h", "o", "n", "d", "a">>>>,
    <<<<"k", "2", "4">>,
      <<"t", "e", "c", "h", "n", "i", "c", "a", "l", "-", "l", "i", "b", "r", "a", "r", "y", "/", "e", "n", "g", "i", "n", "e", "s", "/", "h", "o", "n", "d", "a">>>>,
    <<<<"m", "a", "z", "d", "a">>,
      <<"t", "e", "c", "h", "n", "i", "c", "a", "l", "-", "l", "i", "b", "r", "a", "r", "y", "/", "e", "n", "g", "i", "n", "e", "s", "/", "m", "a", "z", "d", "a">>>>,
    <<<<"m", "i", "a", "t", "a">>,
      <<"t", "e", "c", "h", "n", "i", "c", "a", "l", "-", "l", "i", "b", "r", "a", "r", "y", "/", "e", "n", "g", "i", "n", "e", "s", "/", "m", "a", "z", "d", "a">>>>,
    <<<<"m", "x", "-", "5">>,
      <<"t", "e", "c", "h", "n", "i", "c", "a", "l", "-", "l", "i", "b", "r", "a", "r", "y", "/", "e", "n", "g", "i", "n", "e", "s", "/", "m", "a", "z", "d", "a">>>>,
    <<<<"m", "x", "5">>,
      <<"t", "e", "c", "h", "n", "i", "c", "a", "l", "-", "l", "i", "b", "r", "a", "r", "y", "/", "e", "n", "g", "i", "n", "e", "s", "/", "m", "a", "z", "d", "a">>>>,
    <<<<"n", "a", "-", "n", "b">>,
      <<"t", "e", "c", "h", "n", "i", "c", "a", "l", "-", "l", "i", "b", "r", "a", "r", "y", "/", "e", "n", "g", "i", "n", "e", "s", "/", "m", "a", "z", "d", "a">>>>,
    <<<<"b", "p">>,
      <<"t", "e", "c", "h", "n", "i", "c", "a", "l", "-", "l", "i", "b", "r", "a", "r", "y", "/", "e", "n", "g", "i", "n", "e", "s", "/", "m", "a", "z", "d", "a">>>>,
    <<<<"b", "6">>,
      <<"t", "e", "c", "h", "n", "i", "c", "a", "l", "-", "l", "i", "b", "r", "a", "r", "y", "/", "e", "n", "g", "i", "n", "e", "s", "/", "m", "a", "z", "d", "a">>>>,
    <<<<"r", "o", "t", "a", "r", "y">>,
      <<"t", "e", "c", "h", "n", "i", "c", "a", "l", "-", "l", "i", "b", "r", "a", "r", "y", "/", "e", "n", "g", "i", "n", "e", "s", "/", "m", "a", "z", "d", "a">>>>,
    <<<<"1", "3", "b">>,
      <<"t", "e", "c", "h", "n", "i", "c", "a", "l", "-", "l", "i", "b", "r", "a", "r", "y", "/", "e", "n", "g", "i", "n", "e", "s", "/", "m", "a", "z", "d", "a">>>>,
    <<<<"2", "0", "b">>,
      <<"t", "e", "c", "h", "n", "i", "c", "a", "l", "-", "l", "i", "b", "r", "a", "r", "y", "/", "e", "n", "g", "i", "n", "e", "s", "/", "m", "a", "z", "d", "a">>>>,
    <<<<"m", "i", "t", "s", "u", "b", "i", "s", "h", "i">>,
      <<"t", "e", "c", "h", "n", "i", "c", "a", "l", "-", "l", "i", "b", "r", "a", "r", "y", "/", "e", "n", "g", "i", "n", "e", "s", "/", "m", "i", "t", "s", "u", "b", "i", "s", "h", "i">>>>,
    <<<<"4", "g", "6", "3">>,
      <<"t", "e", "c", "h", "n", "i", "c", "a", "l", "-", "l", "i", "b", "r", "a", "r", "y", "/", "e", "n", "g", "i", "n", "e", "s", "/", "m", "i", "t", "s", "u", "b", "i", "s", "h", "i">>>>,
    <<<<"4", "g", "9", "3">>,
      <<"t", "e", "c", "h", "n", "i", "c", "a", "l", "-", "l", "i", "b", "r", "a", "r", "y", "/", "e", "n", "g", "i", "n", "e", "s", "/", "m", "i", "t", "s", "u", "b", "i", "s", "h", "i">>>>,
    <<<<"4", "b", "1", "1">>,
      <<"t", "e", "c", "h", "n", "i", "c", "a", "l", "-", "l", "i", "b", "r", "a", "r", "y", "/", "e", "n", "g", "i", "n", "e", "s", "/", "m", "i", "t", "s", "u", "b", "i", "s", "h", "i">>>>,
    <<<<"e", "v", "o">>,
      <<"t", "e", "c", "h", "n", "i", "c", "a", "l", "-", "l", "i", "b", "r", "a", "r", "y", "/", "e", "n", "g", "i", "n", "e", "s", "/", "m", "i", "t", "s", "u", "b", "i", "s", "h", "i">>>>,
    <<<<"n", "i", "s", "s", "a", "n">>,
      <<"t", "e", "c", "h", "n", "i", "c", "a", "l", "-", "l", "i", "b", "r", "a", "r", "y", "/", "e", "n", "g", "i", "n", "e", "s", "/", "n", "i", "s", "s", "a", "n">>>>,
    <<<<"r", "b">>,
      <<"t", "e", "c", "h", "n", "i", "c", "a", "l", "-", "l", "i", "b", "r", "a", "r", "y", "/", "e", "n", "g", "i", "n", "e", "s", "/", "n", "i", "s", "s", "a", "n">>>>,
    <<<<"r", "b", "2", "0">>,
      <<"t", "e", "c", "h", "n", "i", "c", "a", "l", "-", "l", "i", "b", "r", "a", "r", "y", "/", "e", "n", "g", "i", "n", "e", "s", "/", "n", "i", "s", "s", "a", "n">>>>,
    <<<<"r", "b", "2", "5">>,
      <<"t", "e", "c", "h", "n", "i", "c", "a", "l", "-", "l", "i", "b", "r", "a", "r", "y", "/", "e", "n", "g", "i", "n", "e", "s", "/", "n", "i", "s", "s", "a", "n">>>>,
    <<<<"r", "b", "2", "6">>,
      <<"t", "e", "c", "h", "n", "i", "c", "a", "l", "-", "l", "i", "b", "r", "a", "r", "y", "/", "e", "n", "g", "i", "n", "e", "s", "/", "n", "i", "s", "s", "a", "n">>>>,
    <<<<"r", "b", "3", "0">>,
      <<"t", "e", "c", "h", "n", "i", "c", "a", "l", "-", "l", "i", "b", "r", "a", "r", "y", "/", "e", "n", "g", "i", "n", "e", "s", "/", "n", "i", "s", "s", "a", "n">>>>,
    <<<<"s", "r", "2", "0">>,
      <<"t", "e", "c", "h", "n", "i", "c", "a", "l", "-", "l", "i", "b", "r", "a", "r", "y", "/", "e", "n", "g", "i", "n", "e", "s", "/", "n", "i", "s", "s", "a", "n">>>>,
    <<<<"v", "q">>,
      <<"t", "e", "c", "h", "n", "i", "c", "a", "l", "-", "l", "i", "b", "r", "a", "r", "y", "/", "e", "n", "g", "i", "n", "e", "s", "/", "n", "i", "s", "s", "a", "n">>>>,
    <<<<"v", "q", "3", "5">>,
      <<"t", "e", "c", "h", "n", "i", "c", "a", "l", "-", "l", "i", "b", "r", "a", "r", "y", "/", "e", "n", "g", "i", "n", "e", "s", "/", "n", "i", "s", "s", "a", "n">>>>,
    <<<<"v", "r", "3", "8">>,
      <<"t", "e", "c", "h", "n", "i", "c", "a", "l", "-", "l", "i", "b", "r", "a", "r", "y", "/", "e", "n", "g", "i", "n", "e", "s", "/", "n", "i", "s", "s", "a", "n">>>>,
    <<<<"c", "a", "1", "8">>,
      <<"t", "e", "c", "h", "n", "i", "c", "a", "l", "-", "l", "i", "b", "r", "a", "r", "y", "/", "e", "n", "g", "i", "n", "e", "s", "/", "n", "i", "s", "s", "a", "n">>>>,
    <<<<"s", "u", "b", "a", "r", "u">>,
      <<"t", "e", "c", "h", "n", "i", "c", "a", "l", "-", "l", "i", "b", "r", "a", "r", "y", "/", "e", "n", "g", "i", "n", "e", "s", "/", "s", "u", "b", "a", "r", "u">>>>,
    <<<<"e", "j">>,
      <<"t", "e", "c", "h", "n", "i", "c", "a", "l", "-", "l", "i", "b", "r", "a", "r", "y", "/", "e", "n", "g", "i", "n", "e", "s", "/", "s", "u", "b", "a", "r", "u">>>>,
    <<<<"e", "j", "2", "0">>,
      <<"t", "e", "c", "h", "n", "i", "c", "a", "l", "-", "l", "i", "b", "r", "a", "r", "y", "/", "e", "n", "g", "i", "n", "e", "s", "/", "s", "u", "b", "a", "r", "u">>>>,
    <<<<"e", "j", "2", "5">>,
      <<"t", "e", "c", "h", "n", "i", "c", "a", "l", "-", "l", "i", "b", "r", "a", "r", "y", "/", "e", "n", "g", "i", "n", "e", "s", "/", "s", "u", "b", "a", "r", "u">>>>,
    <<<<"f", "a", "2", "0">>,
      <<"t", "e", "c", "h", "n", "i", "c", "a", "l", "-", "l", "i", "b", "r", "a", "r", "y", "/", "e", "n", "g", "i", "n", "e", "s", "/", "s", "u", "b", "a", "r", "u">>>>,
    <<<<"f", "b">>,
      <<"t", "e", "c", "h", "n", "i", "c", "a", "l", "-", "l", "i", "b", "r", "a", "r", "y", "/", "e", "n", "g", "i", "n", "e", "s", "/", "s", "u", "b", "a", "r", "u">>>>,
    <<<<"t", "o", "y", "o", "t", "a">>,
      <<"t", "e", "c", "h", "n", "i", "c", "a", "l", "-", "l", "i", "b", "r", "a", "r", "y", "/", "e", "n", "g", "i", "n", "e", "s", "/", "t", "o", "y", "o", "t", "a">>>>,
    <<<<"1", "j", "z">>,
      <<"t", "e", "c", "h", "n", "i", "c", "a", "l", "-", "l", "i", "b", "r", "a", "r", "y", "/", "e", "n", "g", "i", "n", "e", "s", "/", "t", "o", "y", "o", "t", "a">>>>,
    <<<<"2", "j", "z">>,
      <<"t", "e", "c", "h", "n", "i", "c", "a", "l", "-", "l", "i", "b", "r", "a", "r", "y", "/", "e", "n", "g", "i", "n", "e", "s", "/", "t", "o", "y", "o", "t", "a">>>>,
    <<<<"1", "u", "z">>,
      <<"t", "e", "c", "h", "n", "i", "c", "a", "l", "-", "l", "i", "b", "r", "a", "r", "y", "/", "e", "n", "g", "i", "n", "e", "s", "/", "t", "o", "y", "o", "t", "a">>>>,
    <<<<"2", "u", "z">>,
      <<"t", "e", "c", "h", "n", "i", "c", "a", "l", "-", "l", "i", "b", "r", "a", "r", "y", "/", "e", "n", "g", "i", "n", "e", "s", "/", "t", "o", "y", "o", "t", "a">>>>,
    <<<<"3", "u", "z">>,
      <<"t", "e", "c", "h", "n", "i", "c", "a", "l", "-", "l", "i", "b", "r", "a", "r", "y", "/", "e", "n", "g", "i", "n", "e", "s", "/", "t", "o", "y", "o", "t", "a">>>>,
    <<<<"4", "a", "g">>,
      <<"t", "e", "c", "h", "n", "i", "c", "a", "l", "-", "l", "i", "b", "r", "a", "r", "y", "/", "e", "n", "g", "i", "n", "e", "s", "/", "t", "o", "y", "o", "t", "a">>>>,
    <<<<"3", "s", "g">>,
      <<"t", "e", "c", "h", "n", "i", "c", "a", "l", "-", "l", "i", "b", "r", "a", "r", "y", "/", "e", "n", "g", "i", "n", "e", "s", "/", "t", "o", "y", "o", "t", "a">>>>,
    <<<<"2", "z", "z">>,
      <<"t", "e", "c", "h", "n", "i", "c", "a", "l", "-", "l", "i", "b", "r", "a", "r", "y", "/", "e", "n", "g", "i", "n", "e", "s", "/", "t", "o", "y", "o", "t", "a">>>>,
    <<<<"1", "n", "z">>,
      <<"t", "e", "c", "h", "n", "i", "c", "a", "l", "-", "l", "i", "b", "r", "a", "r", "y", "/", "e", "n", "g", "i", "n", "e", "s", "/", "t", "o", "y", "o", "t", "a">>>>,
    <<<<"2", "a", "z">>,
      <<"t", "e", "c", "h", "n", "i", "c", "a", "l", "-", "l", "i", "b", "r", "a", "r", "y", "/", "e", "n", "g", "i", "n", "e", "s", "/", "t", "o", "y", "o", "t", "a">>>>,
    <<<<"2", "r", "z">>,
      <<"t", "e", "c", "h", "n", "i", "c", "a", "l", "-", "l", "i", "b", "r", "a", "r", "y", "/", "e", "n", "g", "i", "n", "e", "s", "/", "t", "o", "y", "o", "t", "a">>>>,
    <<<<"3", "r", "z">>,
      <<"t", "e", "c", "h", "n", "i", "c", "a", "l", "-", "l", "i", "b", "r", "a", "r", "y", "/", "e", "n", "g", "i", "n", "e", "s", "/", "t", "o", "y", "o", "t", "a">>>>,
    <<<<"v", "w">>,
      <<"t", "e", "c", "h", "n", "i", "c", "a", "l", "-", "l", "i", "b", "r", "a", "r", "y", "/", "e", "n", "g", "i", "n", "e", "s", "/", "v", "w">>>>,
    <<<<"v", "o", "l", "k", "s", "w", "a", "g", "e", "n">>,
      <<"t", "e", "c", "h", "n", "i", "c", "a", "l", "-", "l", "i", "b", "r", "a", "r", "y", "/", "e", "n", "g", "i", "n", "e", "s", "/", "v", "w">>>>,
    <<<<"a", "u", "d", "i">>,
      <<"t", "e", "c", "h", "n", "i", "c", "a", "l", "-", "l", "i", "b", "r", "a", "r", "y", "/", "e", "n", "g", "i", "n", "e", "s", "/", "v", "w">>>>,
    <<<<"1", ".", "8", "t">>,
      <<"t", "e", "c", "h", "n", "i", "c", "a", "l", "-", "l", "i", "b", "r", "a", "r", "y", "/", "e", "n", "g", "i", "n", "e", "s", "/", "v", "w">>>>,
    <<<<"1", ".", "8", "-", "t", "u", "r", "b", "o">>,
      <<"t", "e", "c", "h", "n", "i", "c", "a", "l", "-", "l", "i", "b", "r", "a", "r", "y", "/", "e", "n", "g", "i", "n", "e", "s", "/", "v", "w">>>>,
    <<<<"2", ".", "0", "t">>,
      <<"t", "e", "c", "h", "n", "i", "c", "a", "l", "-", "l", "i", "b", "r", "a", "r", "y", "/", "e", "n", "g", "i", "n", "e", "s", "/", "v", "w">>>>,
    <<<<"v", "r", "6">>,
      <<"t", "e", "c", "h", "n", "i", "c", "a", "l", "-", "l", "i", "b", "r", "a", "r", "y", "/", "e", "n", "g", "i", "n", "e", "s", "/", "v", "w">>>>,
    <<<<"g", "m">>,
      <<"t", "e", "c", "h", "n", "i", "c", "a", "l", "-", "l", "i", "b", "r", "a", "r", "y", "/", "e", "n", "g", "i", "n", "e", "s", "/", "g", "m">>>>,
    <<<<"c", "h", "e", "v", "r", "o", "l", "e", "t">>,
      <<"t", "e", "c", "h", "n", "i", "c", "a", "l", "-", "l", "i", "b", "r", "a", "r", "y", "/", "e", "n", "g", "i", "n", "e", "s", "/", "g", "m">>>>,
    <<<<"c", "h", "e", "v", "y">>,
      <<"t", "e", "c", "h", "n", "i", "c", "a", "l", "-", "l", "i", "b", "r", "a", "r", "y", "/", "e", "n", "g", "i", "n", "e", "s", "/", "g", "m">>>>,
    <<<<"l", "s">>,
      <<"t", "e", "c", "h", "n", "i", "c", "a", "l", "-", "l", "i", "b", "r", "a", "r", "y", "/", "e", "n", "g", "i", "n", "e", "s", "/", "g", "m">>>>,
    <<<<"l", "s", "1">>,
      <<"t", "e", "c", "h", "n", "i", "c", "a", "l", "-", "l", "i", "b", "r", "a", "r", "y", "/", "e", "n", "g", "i", "n", "e", "s", "/", "g", "m">>>>,
    <<<<"l", "s", "2">>,
      <<"t", "e", "c", "h", "n", "i", "c", "a", "l", "-", "l", "i", "b", "r", "a", "r", "y", "/", "e", "n", "g", "i", "n", "e", "s", "/", "g", "m">>>>,
    <<<<"l", "s", "3">>,
      <<"t", "e", "c", "h", "n", "i", "c", "a", "l", "-", "l", "i", "b", "r", "a", "r", "y", "/", "e", "n", "g", "i", "n", "e", "s", "/", "g", "m">>>>,
    <<<<"l", "s", "6">>,
      <<"t", "e", "c", "h", "n", "i", "c", "a", "l", "-", "l", "i", "b", "r", "a", "r", "y", "/", "e", "n", "g", "i", "n", "e", "s", "/", "g", "m">>>>,
    <<<<"l", "s", "7">>,
      <<"t", "e", "c", "h", "n", "i", "c", "a", "l", "-", "l", "i", "b", "r", "a", "r", "y", "/", "e", "n", "g", "i", "n", "e", "s", "/", "g", "m">>>>,
    <<<<"l", "s", "x">>,
      <<"t", "e", "c", "h", "n", "i", "c", "a", "l", "-", "l", "i", "b", "r", "a", "r", "y", "/", "e", "n", "g", "i", "n", "e", "s", "/", "g", "m">>>>
  >>

PRODUCT_MAPPINGS ==
  <<
    <<<<"e", "l", "i", "t", "e">>,
      <<"p", "r", "o", "d", "u", "c", "t", "s", "/", "e", "l", "i", "t", "e", "-", "s", "e", "r", "i", "e", "s">>>>,
    <<<<"e", "l", "i", "t", "e", "-", "1", "0", "0", "0">>,
      <<"p", "r", "o", "d", "u", "c", "t", "s", "/", "e", "l", "i", "t", "e", "-", "s", "e", "r", "i", "e", "s">>>>,
    <<<<"e", "l", "i", "t", "e", "-", "1", "5", "0", "0">>,
      <<"p", "r", "o", "d", "u", "c", "t", "s", "/", "e", "l", "i", "t", "e", "-", "s", "e", "r", "i", "e", "s">>>>,
    <<<<"e", "l", "i", "t", "e", "-", "2", "0", "0", "0">>,
      <<"p", "r", "o", "d", "u", "c", "t", "s", "/", "e", "l", "i", "t", "e", "-", "s", "e", "r", "i", "e", "s">>>>,
    <<<<"e", "l", "i", "t", "e", "-", "2", "5", "0", "0">>,
      <<"p", "r", "o", "d", "u", "c", "t", "s", "/", "e", "l", "i", "t", "e", "-", "s", "e", "r", "i", "e", "s">>>>,
    <<<<"n", "e", "x", "u", "s">>,
      <<"p", "r", "o", "d", "u", "c", "t", "s", "/", "n", "e", "x", "u", "s", "-", "s", "e", "r", "i", "e", "s">>>>,
    <<<<"n", "e", "x", "u", "s", "-", "r", "3">>,
      <<"p", "r", "o", "d", "u", "c", "t", "s", "/", "n", "e", "x", "u", "s", "-", "s", "e", "r", "i", "e", "s">>>>,
    <<<<"n", "e", "x", "u", "s", "-", "r", "5">>,
      <<"p", "r", "o", "d", "u", "c", "t", "s", "/", "n", "e", "x", "u", "s", "-", "s", "e", "r", "i", "e", "s">>>>,
    <<<<"n", "e", "x", "u", "s", "-", "s", "3">>,
      <<"p", "r", "o", "d", "u", "c", "t", "s", "/", "n", "e", "x", "u", "s", "-", "s", "e", "r", "i", "e", "s">>>>,
    <<<<"i", "c", "-", "7">>,
      <<"p", "r", "o", "d", "u", "c", "t", "s", "/", "d", "i", "s", "p", "l", "a", "y", "s">>>>,
    <<<<"i", "q", "3">>,
      <<"p", "r", "o", "d", "u", "c", "t", "s", "/", "d", "i", "s", "p", "l", "a", "y", "s">>>>,
    <<<<"d", "a", "s", "h">>,
      <<"p", "r", "o", "d", "u", "c", "t", "s", "/", "d", "i", "s", "p", "l", "a", "y", "s">>>>,
    <<<<"d", "i", "s", "p", "l", "a", "y">>,
      <<"p", "r", "o", "d", "u", "c", "t", "s", "/", "d", "i", "s", "p", "l", "a", "y", "s">>>>,
    <<<<"w", "i", "d", "e", "b", "a", "n", "d">>,
      <<"p", "r", "o", "d", "u", "c", "t", "s", "/", "s", "e", "n", "s", "o", "r", "s">>>>,
    <<<<"w", "b", "1">>,
      <<"p", "r", "o", "d", "u", "c", "t", "s", "/", "s", "e", "n", "s", "o", "r", "s">>>>,
    <<<<"w", "b", "2">>,
      <<"p", "r", "o", "d", "u", "c", "t", "s", "/", "s", "e", "n", "s", "o", "r", "s">>>>
  >>

TECHNICAL_MAPPINGS ==
  <<
    <<<<"t", "r", "i", "g", "g", "e", "r">>,
      <<"t", "e", "c", "h", "n", "i", "c", "a", "l", "-", "l", "i", "b", "r", "a", "r", "y", "/", "t", "r", "i", "g", "g", "e", "r", "s">>>>,
    <<<<"c", "r", "a", "n", "k", "-", "t", "r", "i", "g", "g", "e", "r">>,
      <<"t", "e", "c", "h", "n", "i", "c", "a", "l", "-", "l", "i", "b", "r", "a", "r", "y", "/", "t", "r", "i", "g", "g", "e", "r", "s">>>>,
    <<<<"c", "a", "m", "-", "t", "r", "i", "g", "g", "e", "r">>,
      <<"t", "e", "c", "h", "n", "i", "c", "a", "l", "-", "l", "i", "b", "r", "a", "r", "y", "/", "t", "r", "i", "g", "g", "e", "r", "s">>>>,
    <<<<"h", "o", "m", "e", "-", "s", "i", "g", "n", "a", "l">>,
      <<"t", "e", "c", "h", "n", "i", "c", "a", "l", "-", "l", "i", "b", "r", "a", "r", "y", "/", "t", "r", "i", "g", "g", "e", "r", "s">>>>,
    <<<<"f", "u", "e", "l">>,
      <<"t", "e", "c", "h", "n", "i", "c", "a", "l", "-", "l", "i", "b", "r", "a", "r", "y", "/", "f", "u", "e", "l">>>>,
    <<<<"i", "n", "j", "e", "c", "t", "o", "r">>,
      <<"t", "e", "c", "h", "n", "i", "c", "a", "l", "-", "l", "i", "b", "r", "a", "r", "y", "/", "f", "u", "e", "l">>>>,
    <<<<"f", "u", "e", "l", "-", "p", "u", "m", "p">>,
      <<"t", "e", "c", "h", "n", "i", "c", "a", "l", "-", "l", "i", "b", "r", "a", "r", "y", "/", "f", "u", "e", "l">>>>,
    <<<<"f", "l", "e", "x", "-", "f", "u", "e", "l">>,
      <<"t", "e", "c", "h", "n", "i", "c", "a", "l", "-", "l", "i", "b", "r", "a", "r", "y", "/", "f", "u", "e", "l">>>>,
    <<<<"e", "8", "5">>,
      <<"t", "e", "c", "h", "n", "i", "c", "a", "l", "-", "l", "i", "b", "r", "a", "r", "y", "/", "f", "u", "e", "l">>>>,
    <<<<"i", "g", "n", "i", "t", "i", "o", "n">>,
      <<"t", "e", "c", "h", "n", "i", "c", "a", "l", "-", "l", "i", "b", "r", "a", "r", "y", "/", "i", "g", "n", "i", "t", "i", "o", "n", "-", "s", "y", "s", "t", "e", "m", "s">>>>,
    <<<<"c", "o", "i", "l">>,
      <<"t", "e", "c", "h", "n", "i", "c", "a", "l", "-", "l", "i", "b", "r", "a", "r", "y", "/", "i", "g", "n", "i", "t", "i", "o", "n", "-", "s", "y", "s", "t", "e", "m", "s">>>>,
    <<<<"s", "p", "a", "r", "k">>,
      <<"t", "e", "c", "h", "n", "i", "c", "a", "l", "-", "l", "i", "b", "r", "a", "r", "y", "/", "i", "g", "n", "i", "t", "i", "o", "n", "-", "s", "y", "s", "t", "e", "m", "s">>>>,
    <<<<"c", "d", "i">>,
      <<"t", "e", "c", "h", "n", "i", "c", "a", "l", "-", "l", "i", "b", "r", "a", "r", "y", "/", "i", "g", "n", "i", "t", "i", "o", "n", "-", "s", "y", "s", "t", "e", "m", "s">>>>,
    <<<<"s", "e", "n", "s", "o", "r">>,
      <<"t", "e", "c", "h", "n", "i", "c", "a", "l", "-", "l", "i", "b", "r", "a", "r", "y", "/", "s", "e", "n", "s", "o", "r", "s">>>>,
    <<<<"m", "a", "p">>,
      <<"t", "e", "c", "h", "n", "i", "c", "a", "l", "-", "l", "i", "b", "r", "a", "r", "y", "/", "s", "e", "n", "s", "o", "r", "s">>>>,
    <<<<"m", "a", "f">>,
      <<"t", "e", "c", "h", "n", "i", "c", "a", "l", "-", "l", "i", "b", "r", "a", "r", "y", "/", "s", "e", "n", "s", "o", "r", "s">>>>,
    <<<<"t", "p", "s">>,
      <<"t", "e", "c", "h", "n", "i", "c", "a", "l", "-", "l", "i", "b", "r", "a", "r", "y", "/", "s", "e", "n", "s", "o", "r", "s">>>>,
    <<<<"i", "a", "t">>,
      <<"t", "e", "c", "h", "n", "i", "c", "a", "l", "-", "l", "i", "b", "r", "a", "r", "y", "/", "s", "e", "n", "s", "o", "r", "s">>>>,
    <<<<"e", "c", "t">>,
      <<"t", "e", "c", "h", "n", "i", "c", "a", "l", "-", "l", "i", "b", "r", "a", "r", "y", "/", "s", "e", "n", "s", "o", "r", "s">>>>,
    <<<<"l", "a", "m", "b", "d", "a">>,
      <<"t", "e", "c", "h", "n", "i", "c", "a", "l", "-", "l", "i", "b", "r", "a", "r", "y", "/", "s", "e", "n", "s", "o", "r", "s">>>>,
    <<<<"o", "2">>,
      <<"t", "e", "c", "h", "n", "i", "c", "a", "l", "-", "l", "i", "b", "r", "a", "r", "y", "/", "s", "e", "n", "s", "o", "r", "s">>>>,
    <<<<"b", "o", "o", "s", "t">>,
      <<"t", "e", "c", "h", "n", "i", "c", "a", "l", "-", "l", "i", "b", "r", "a", "r", "y", "/", "f", "u", "n", "c", "t", "i", "o", "n", "s">>>>,
    <<<<"i", "d", "l", "e">>,
      <<"t", "e", "c", "h", "n", "i", "c", "a", "l", "-", "l", "i", "b", "r", "a", "r", "y", "/", "f", "u", "n", "c", "t", "i", "o", "n", "s">>>>,
    <<<<"l", "a", "u", "n", "c", "h">>,
      <<"t", "e", "c", "h", "n", "i", "c", "a", "l", "-", "l", "i", "b", "r", "a", "r", "y", "/", "f", "u", "n", "c", "t", "i", "o", "n", "s">>>>,
    <<<<"a", "n", "t", "i", "l", "a", "g">>,
      <<"t", "e", "c", "h", "n", "i", "c", "a", "l", "-", "l", "i", "b", "r", "a", "r", "y", "/", "f", "u", "n", "c", "t", "i", "o", "n", "s">>>>,
    <<<<"t", "r", "a", "c", "t", "i", "o", "n">>,
      <<"t", "e", "c", "h", "n", "i", "c", "a", "l", "-", "l", "i", "b", "r", "a", "r", "y", "/", "f", "u", "n", "c", "t", "i", "o", "n", "s">>>>,
    <<<<"n", "i", "t", "r", "o", "u", "s">>,
      <<"t", "e", "c", "h", "n", "i", "c", "a", "l", "-", "l", "i", "b", "r", "a", "r", "y", "/", "f", "u", "n", "c", "t", "i", "o", "n", "s">>>>,
    <<<<"c", "a", "m", "-", "c", "o", "n", "t", "r", "o", "l">>,
      <<"t", "e", "c", "h", "n", "i", "c", "a", "l", "-", "l", "i", "b", "r", "a", "r", "y", "/", "f", "u", "n", "c", "t", "i", "o", "n", "s">>>>,
    <<<<"v", "v", "t">>,
      <<"t", "e", "c", "h", "n", "i", "c", "a", "l", "-", "l", "i", "b", "r", "a", "r", "y", "/", "f", "u", "n", "c", "t", "i", "o", "n", "s">>>>
  >>

SOFTWARE_MAPPINGS ==
  <<
    <<<<"n", "s", "p">>,
      <<"n", "e", "x", "u", "s", "-", "s", "o", "f", "t", "w", "a", "r", "e", "-", "p", "r", "o", "g", "r", "a", "m", "m", "e", "r", "-", "n", "s", "p">>>>,
    <<<<"n", "e", "x", "u", "s", "-", "s", "o", "f", "t", "w", "a", "r", "e">>,
      <<"n", "e", "x", "u", "s", "-", "s", "o", "f", "t", "w", "a", "r", "e", "-", "p", "r", "o", "g", "r", "a", "m", "m", "e", "r", "-", "n", "s", "p">>>>,
    <<<<"e", "s", "p">>,
      <<"e", "l", "i", "t", "e", "-", "s", "o", "f", "t", "w", "a", "r", "e", "-", "p", "r", "o", "g", "r", "a", "m", "m", "e", "r">>>>,
    <<<<"e", "l", "i", "t", "e", "-", "s", "o", "f", "t", "w", "a", "r", "e">>,
      <<"e", "l", "i", "t", "e", "-", "s", "o", "f", "t", "w", "a", "r", "e", "-", "p", "r", "o", "g", "r", "a", "m", "m", "e", "r">>>>,
    <<<<"d", "a", "t", "a", "l", "o", "g">>,
      <<"s", "o", "f", "t", "w", "a", "r", "e", "/", "d", "a", "t", "a", "l", "o", "g">>>>,
    <<<<"t", "u", "n", "i", "n", "g">>,
      <<"s", "o", "f", "t", "w", "a", "r", "e", "/", "t", "u", "n", "i", "n", "g">>>>
  >>

\* content_lower[:500]
CONTENT_PREFIX == 500

\* combined_text = f"{url_lower} {title_lower} {content_lower[:500]}"
combined_text(url, title, content) ==
    Lower(url) \o <<" ">> \o Lower(title) \o <<" ">> \o Take(Lower(content), CONTENT_PREFIX)

\* for keyword, category in table.items(): if keyword in combined_text: return
\* The index of the entry the loop returns at, from entry i on; 0 when the
\* loop ends without returning.
RECURSIVE ScanTable(_, _, _)
ScanTable(table, i, text) ==
    IF i > Len(table) THEN 0
    ELSE IF Contains(text, table[i][1]) THEN i
    ELSE ScanTable(table, i + 1, text)

UpperChar(c) ==
    IF \E i \in 1..Len(LowerCase) : LowerCase[i] = c
    THEN UpperCase[CHOOSE i \in 1..Len(LowerCase) : LowerCase[i] = c]
    ELSE c

\* p.replace('-', ' ').title()
TitleOf(p) ==
    [i \in 1..Len(p) |->
        IF p[i] = "-" THEN " "
        ELSE IF i = 1 \/ p[i - 1] \notin Letters THEN UpperChar(p[i])
        ELSE LowerChar(p[i])]

KNOWLEDGE_BASE ==
    <<"K", "n", "o", "w", "l", "e", "d", "g", "e", " ", "B", "a", "s", "e">>

HALTECH == <<"H", "a", "l", "t", "e", "c", "h">>

\* ['Knowledge Base', 'Haltech'] + [p.replace('-', ' ').title() for p in parts]
CategoryBreadcrumbs(category) ==
    <<KNOWLEDGE_BASE, HALTECH>>
    \o [k \in 1..Len(Split(category, "/")) |-> TitleOf(Split(category, "/")[k])]

\* return category, breadcrumbs
Categorized(category) == <<category, CategoryBreadcrumbs(category)>>

ARTICLES_PATTERN ==
    <<"/", "k", "b", "/", "a", "r", "t", "i", "c", "l", "e", "s", "/">>

\* re.search(r'/kb/articles/([^/?]+)', url): where the first match begins, 0
\* without a match
ArticleMatch(url) ==
    IF \E i \in 1..(Len(url) - Len(ARTICLES_PATTERN)) :
            IsAt(url, ARTICLES_PATTERN, i) /\ url[i + Len(ARTICLES_PATTERN)] \notin {"/", "?"}
    THEN CHOOSE i \in 1..(Len(url) - Len(ARTICLES_PATTERN)) :
            /\ IsAt(url, ARTICLES_PATTERN, i)
            /\ url[i + Len(ARTICLES_PATTERN)] \notin {"/", "?"}
            /\ \A k \in 1..(i - 1) :
                    ~(IsAt(url, ARTICLES_PATTERN, k)
                      /\ url[k + Len(ARTICLES_PATTERN)] \notin {"/", "?"})
    ELSE 0

\* match.group(1)
ArticleSlug(url) ==
    Only({Take(rest, FirstOf(rest, {"/", "?"}) - 1) :
            rest \in {Drop(url, ArticleMatch(url) + Len(ARTICLES_PATTERN) - 1)}})

\* any(term in article_slug for term in terms)
AnyIn(terms, slug) == \E k \in 1..Len(terms) : Contains(slug, terms[k])

\* The guess from the article slug, the fallback when no keyword matches
SlugFallback(url) ==
    IF ~Contains(url, ARTICLES_PATTERN) \/ ArticleMatch(url) = 0
    THEN Categorized(<<"a", "r", "t", "i", "c", "l", "e", "s">>)
    ELSE Only({
        IF AnyIn(<<<<"e", "n", "g", "i", "n", "e">>, <<"m", "o", "t", "o", "r">>>>, slug)
        THEN Categorized(<<"t", "e", "c", "h", "n", "i", "c", "a", "l", "-", "l", "i", "b", "r", "a", "r", "y", "/", "e", "n", "g", "i", "n", "e", "s">>)
        ELSE IF AnyIn(<<<<"t", "r", "i", "g", "g", "e", "r">>, <<"c", "r", "a", "n", "k">>, <<"c", "a", "m">>>>, slug)
        THEN Categorized(<<"t", "e", "c", "h", "n", "i", "c", "a", "l", "-", "l", "i", "b", "r", "a", "r", "y", "/", "t", "r", "i", "g", "g", "e", "r", "s">>)
        ELSE IF AnyIn(<<<<"f", "u", "e", "l">>, <<"i", "n", "j", "e", "c", "t", "o", "r">>>>, slug)
        THEN Categorized(<<"t", "e", "c", "h", "n", "i", "c", "a", "l", "-", "l", "i", "b", "r", "a", "r", "y", "/", "f", "u", "e", "l">>)
        ELSE IF AnyIn(<<<<"w", "i", "r", "e">>, <<"w", "i", "r", "i", "n", "g">>, <<"h", "a", "r", "n", "e", "s", "s">>, <<"p", "i", "n", "o", "u", "t">>>>, slug)
        THEN Categorized(<<"t", "e", "c", "h", "n", "i", "c", "a", "l", "-", "l", "i", "b", "r", "a", "r", "y", "/", "w", "i", "r", "i", "n", "g">>)
        ELSE IF AnyIn(<<<<"t", "u", "n", "e">>, <<"t", "u", "n", "i", "n", "g">>, <<"m", "a", "p">>>>, slug)
        THEN Categorized(<<"t", "e", "c", "h", "n", "i", "c", "a", "l", "-", "l", "i", "b", "r", "a", "r", "y", "/", "t", "u", "n", "i", "n", "g">>)
        ELSE Categorized(<<"a", "r", "t", "i", "c", "l", "e", "s">>) : slug \in {ArticleSlug(url)}})

\* The technical table scanned before the engine table.
ScanTables_TechnicalFirst(text, url) ==
    IF ScanTable(TECHNICAL_MAPPINGS, 1, text) # 0
    THEN Categorized(TECHNICAL_MAPPINGS[ScanTable(TECHNICAL_MAPPINGS, 1, text)][2])
    ELSE IF ScanTable(ENGINE_MAPPINGS, 1, text) # 0
    THEN Categorized(ENGINE_MAPPINGS[ScanTable(ENGINE_MAPPINGS, 1, text)][2])
    ELSE IF ScanTable(PRODUCT_MAPPINGS, 1, text) # 0
    THEN Categorized(PRODUCT_MAPPINGS[ScanTable(PRODUCT_MAPPINGS, 1, text)][2])
    ELSE IF ScanTable(SOFTWARE_MAPPINGS, 1, text) # 0
    THEN Categorized(SOFTWARE_MAPPINGS[ScanTable(SOFTWARE_MAPPINGS, 1, text)][2])
    ELSE SlugFallback(url)

\* The four loops of categorize_article over the combined text, then the
\* fallback
ScanTables(text, url) ==
    IF ScanTable(ENGINE_MAPPINGS, 1, text) # 0
    THEN Categorized(ENGINE_MAPPINGS[ScanTable(ENGINE_MAPPINGS, 1, text)][2])
    ELSE IF ScanTable(PRODUCT_MAPPINGS, 1, text) # 0
    THEN Categorized(PRODUCT_MAPPINGS[ScanTable(PRODUCT_MAPPINGS, 1, text)][2])
    ELSE IF ScanTable(TECHNICAL_MAPPINGS, 1, text) # 0
    THEN Categorized(TECHNICAL_MAPPINGS[ScanTable(TECHNICAL_MAPPINGS, 1, text)][2])
    ELSE IF ScanTable(SOFTWARE_MAPPINGS, 1, text) # 0
    THEN Categorized(SOFTWARE_MAPPINGS[ScanTable(SOFTWARE_MAPPINGS, 1, text)][2])
    ELSE SlugFallback(url)

\* categorize_article(url, title, content): the pair (directory_path,
\* breadcrumb_list)
categorize_article(url, title, content) ==
    Only({ScanTables(text, url) : text \in {combined_text(url, title, content)}})

MaxBack == 3

\* Articles about an engine and a trigger, about fuel, without any keyword,
\* outside the article path, and in upper case about a product
CategorizeUrls ==
    {<<"h", "t", "t", "p", "s", ":", "/", "/", "s", "u", "p", "p", "o", "r", "t", ".",
     "h", "a", "l", "t", "e", "c", "h", ".", "c", "o", "m", "/", "k", "b", "/", "a",
     "r", "t", "i", "c", "l", "e", "s", "/", "r", "b", "2", "6", "-", "t", "r", "i",
     "g", "g", "e", "r">>,
     <<"h", "t", "t", "p", ":", "/", "/", "s", "u", "p", "p", "o", "r", "t", ".", "h",
     "a", "l", "t", "e", "c", "h", ".", "c", "o", "m", "/", "k", "b", "/", "a", "r",
     "t", "i", "c", "l", "e", "s", "/", "f", "u", "e", "l", "-", "m", "a", "p">>,
     <<"h", "t", "t", "p", ":", "/", "/", "s", "u", "p", "p", "o", "r", "t", ".", "h",
     "a", "l", "t", "e", "c", "h", ".", "c", "o", "m", "/", "k", "b", "/", "a", "r",
     "t", "i", "c", "l", "e", "s", "/", "h", "a", "r", "n", "e", "s", "s">>,
     <<"h", "t", "t", "p", ":", "/", "/", "s", "u", "p", "p", "o", "r", "t", ".", "h",
     "a", "l", "t", "e", "c", "h", ".", "c", "o", "m", "/", "k", "b", "/", "f", "a",
     "q">>,
     <<"H", "T", "T", "P", ":", "/", "/", "s", "u", "p", "p", "o", "r", "t", ".", "h",
     "a", "l", "t", "e", "c", "h", ".", "c", "o", "m", "/", "k", "b", "/", "a", "r",
     "t", "i", "c", "l", "e", "s", "/", "E", "l", "i", "t", "e", "-", "N", "S", "P">>}

CategorizeTitles ==
    {<<>>,
     <<"R", "B", "2", "6", " ", "W", "i", "r", "i", "n", "g", " ", "G", "u", "i", "d",
     "e">>,
     <<"D", "a", "t", "a", "l", "o", "g">>,
     <<"I", "C", "-", "7", " ", "D", "a", "s", "h">>}

\* n characters of article text that spell no keyword
Filler(n) == [i \in 1..n |-> "x"]

\* No content, a short content, and contents in which the keyword bmw ends
\* at, or up to MaxBack characters before, the end of the searched prefix, or
\* lies beyond it
CategorizeContents ==
    {<<>>, <<"l", "s", "1", " ", "s", "w", "a", "p">>}
    \cup {Filler(CONTENT_PREFIX - k) \o <<"b", "m", "w">> : k \in 0..MaxBack}

InitCategorize ==
    /\ ProgramIdle
    /\ call \in {[fn |-> "categorize_article", url |-> u, title |-> t, content |-> c] :
                    u \in CategorizeUrls, t \in CategorizeTitles, c \in CategorizeContents}
    /\ ret = [done |-> FALSE]

CallCategorize ==
    /\ call.fn = "categorize_article"
    /\ ~ret.done
    /\ ret' = [done |-> TRUE, val |-> categorize_article(call.url, call.title, call.content)]
    /\ UNCHANGED <<call, schedVars, crawlVars>>

NextCategorize == CallCategorize

SpecCategorize == InitCategorize /\ [][NextCategorize]_vars

----------------------------------------------------------------------------
(* Properties of the category classifier *)

\* The four tables in their fixed order: engine, product, technical, software
AllMappings ==
    ENGINE_MAPPINGS \o PRODUCT_MAPPINGS \o TECHNICAL_MAPPINGS \o SOFTWARE_MAPPINGS

\* lowercase(url) + ' ' + lowercase(title) + ' ' + the first 500 characters of
\* lowercase(content)
SearchedText(c) ==
    Lower(c.url) \o <<" ">> \o Lower(c.title) \o <<" ">>
    \o SubSeq(Lower(c.content), 1,
              IF Len(c.content) < CONTENT_PREFIX THEN Len(c.content) ELSE CONTENT_PREFIX)

\* The places in the ordered tables of the keywords that occur in a text
KeywordsIn(text) == {i \in 1..Len(AllMappings) : Contains(text, AllMappings[i][1])}

EngineCategories == {ENGINE_MAPPINGS[i][2] : i \in 1..Len(ENGINE_MAPPINGS)}

\* C8: categorize_article returns the category of the first keyword, in the
\* order engine, product, technical, software and in declaration order inside
\* a table, that occurs in lowercase(url) + ' ' + lowercase(title) + ' ' + the
\* first 500 characters of lowercase(content); with an engine keyword in that
\* text the result is an engine category whatever else occurs, and content
\* after the first 500 characters does not change the result.
C8_FirstKeywordWins ==
    (call.fn = "categorize_article" /\ ret.done) =>
        \A hits \in {KeywordsIn(SearchedText(call))} :
            /\ hits # {} =>
                 ret.val[1] = AllMappings[CHOOSE i \in hits : \A k \in hits : i <= k][2]
            /\ (\E i \in hits : i <= Len(ENGINE_MAPPINGS)) => ret.val[1] \in EngineCategories
            /\ ret.val = categorize_article(call.url, call.title,
                                            Take(call.content, CONTENT_PREFIX))

\* An article with an engine keyword and a technical keyword in the searched
\* text and a keyword in its content that lies beyond the searched prefix
C8_Witness ==
    /\ call.fn = "categorize_article"
    /\ ret.done
    /\ Len(call.content) > CONTENT_PREFIX
    /\ \A hits \in {KeywordsIn(SearchedText(call))} :
        /\ \E i \in hits : i <= Len(ENGINE_MAPPINGS)
        /\ \E i \in hits : /\ i > Len(ENGINE_MAPPINGS) + Len(PRODUCT_MAPPINGS)
                           /\ i <= Len(AllMappings) - Len(SOFTWARE_MAPPINGS)
        /\ \E i \in 1..Len(AllMappings) :
                i \notin hits /\ Contains(Lower(call.content), AllMappings[i][1])

----------------------------------------------------------------------------
(* Output paths, src/src/utils.py.  A path is the sequence of its components. *)

MAX_FILENAME_LENGTH == 200

\* config.SLUG_SEPARATOR
SLUG_SEPARATOR == "-"

\* config.OUTPUT_DIR, the output root
OUTPUT_DIR == <<<<"o", "u", "t", "p", "u", "t">>>>

\* The characters slugify keeps
SlugAlphabet == Range(LowerCase) \cup Range(Digits)

\* The k-th smallest member of a set of indices
Nth(K, k) == CHOOSE i \in K : Cardinality({j \in K : j <= i}) = k

\* slugify: what the character at index i becomes: a letter or digit is kept,
\* lowered; a comma between two digits is dropped; any other character, a
\* quote included, becomes the separator.
SlugChar(text, i) ==
    IF LowerChar(text[i]) \in SlugAlphabet THEN LowerChar(text[i])
    ELSE IF /\ text[i] = ","
            /\ i > 1 /\ i < Len(text)
            /\ text[i - 1] \in Range(Digits) /\ text[i + 1] \in Range(Digits)
         THEN ""
    ELSE SLUG_SEPARATOR

\* slugify: the indices whose character is in the slug: the letters and
\* digits, and of every run of separators between two of them the first
SlugKept(text) ==
    {i \in 1..Len(text) :
        \/ SlugChar(text, i) \in SlugAlphabet
        \/ /\ SlugChar(text, i) = SLUG_SEPARATOR
           /\ i > 1 /\ SlugChar(text, i - 1) \in SlugAlphabet
           /\ \E j \in (i + 1)..Len(text) : SlugChar(text, j) \in SlugAlphabet}

\* slugify(text, separator=config.SLUG_SEPARATOR)
slugify(text) ==
    Only({[k \in 1..Cardinality(K) |-> SlugChar(text, Nth(K, k))] : K \in {SlugKept(text)}})

\* slug[:max_length].rsplit(config.SLUG_SEPARATOR, 1)[0] when the slug is
\* longer than max_length
Shorten(slug, max_length) ==
    IF Len(slug) > max_length
    THEN BeforeLast(Take(slug, max_length), SLUG_SEPARATOR)
    ELSE slug

\* create_slug(text), max_length being config.MAX_FILENAME_LENGTH
create_slug(text) == Only({Shorten(slug, MAX_FILENAME_LENGTH) : slug \in {slugify(text)}})

COMMON_PREFIXES ==
    <<<<"p", "o", "r", "t", "a", "l", "/", "e", "n", "/", "k", "b", "/", "h", "a", "l",
     "t", "e", "c", "h", "/">>,
      <<"p", "o", "r", "t", "a", "l", "/", "k", "b", "/">>,
      <<"k", "b", "/">>>>

\* No prefix removed from the path.
RemovePrefix_Kept(path, i) == path

\* for prefix in prefixes: if path.startswith(prefix): path = path[len(prefix):]; break
RECURSIVE RemovePrefix(_, _)
RemovePrefix(path, i) ==
    IF i > Len(COMMON_PREFIXES) THEN path
    ELSE IF StartsWith(path, COMMON_PREFIXES[i]) THEN Drop(path, Len(COMMON_PREFIXES[i]))
    ELSE RemovePrefix(path, i + 1)

\* extract_domain_path(url)
extract_domain_path(url) ==
    Only({Split(RemovePrefix(path, 1), "/") :
            path \in {Strip(urlsplit(url).path, {"/"})}})

Whitespace == {" ", "\t", "\n", "\r"}

INVALID_CHARS == {"<", ">", ":", "\"", "|", "?", "*"}

\* clean_filename: the indices of the characters left by the two
\* replacements: no invalid character, and of a run of whitespace, as it
\* stands once the invalid characters are gone, the first
CleanKept(filename) ==
    {i \in 1..Len(filename) :
        /\ filename[i] \notin INVALID_CHARS
        /\ filename[i] \in Whitespace =>
             \A j \in 1..(i - 1) :
                (filename[j] \in Whitespace) =>
                    \E m \in (j + 1)..(i - 1) : filename[m] \notin INVALID_CHARS \cup Whitespace}

\* clean_filename: filename after the replacements
Cleaned(filename) ==
    Only({[k \in 1..Cardinality(K) |->
                IF filename[Nth(K, k)] \in Whitespace THEN " " ELSE filename[Nth(K, k)]] :
            K \in {CleanKept(filename)}})

\* clean_filename(filename)
clean_filename(filename) == Strip(Cleaned(filename), Whitespace)

\* pathlib: root / Path(*parts); empty parts and "." contribute no component
RECURSIVE Under(_, _)
Under(root, parts) ==
    IF parts = <<>> THEN root
    ELSE IF Head(parts) \in {<<>>, <<".">>} THEN Under(root, Tail(parts))
    ELSE Under(Append(root, Head(parts)), Tail(parts))

\* [create_slug(b) for b in breadcrumbs[2:]]
clean_breadcrumbs(breadcrumbs) ==
    [k \in 1..(Len(breadcrumbs) - 2) |-> create_slug(breadcrumbs[k + 2])]

\* '/kb/articles/' in url and breadcrumbs and len(breadcrumbs) <= 2
UseCategoryMapper(url, breadcrumbs) ==
    Contains(url, ARTICLES_PATTERN) /\ breadcrumbs # <<>> /\ Len(breadcrumbs) <= 2

\* create_output_path: dir_path
dir_path(url, title, content, breadcrumbs, path_parts) ==
    IF UseCategoryMapper(url, breadcrumbs)
    THEN Under(OUTPUT_DIR, Split(categorize_article(url, title, content)[1], "/"))
    ELSE IF breadcrumbs # <<>> /\ Len(breadcrumbs) > 2
    THEN Under(OUTPUT_DIR, clean_breadcrumbs(breadcrumbs))
    ELSE IF Len(path_parts) > 1
    THEN Under(OUTPUT_DIR, Take(path_parts, Len(path_parts) - 1))
    ELSE OUTPUT_DIR

\* create_output_path: filename
filename(path_parts) ==
    clean_filename(IF path_parts # <<>>
                   THEN path_parts[Len(path_parts)] \o <<".", "m", "d">>
                   ELSE <<"i", "n", "d", "e", "x", ".", "m", "d">>)

\* create_output_path(url, title, content, breadcrumbs): title, content and
\* breadcrumbs of None are the empty string and the empty list here
create_output_path(url, title, content, breadcrumbs) ==
    Only({Append(dir_path(url, title, content, breadcrumbs, path_parts),
                 filename(path_parts)) :
            path_parts \in {extract_domain_path(url)}})

MaxCrumbs == 4

PathUrls ==
    {<<"h", "t", "t", "p", "s", ":", "/", "/", "s", "u", "p", "p", "o", "r", "t", ".",
     "h", "a", "l", "t", "e", "c", "h", ".", "c", "o", "m", "/", "p", "o", "r", "t",
     "a", "l", "/", "e", "n", "/", "k", "b", "/", "a", "r", "t", "i", "c", "l", "e",
     "s", "/", "r", "b", "2", "6", "-", "w", "i", "r", "i", "n", "g">>,
     <<"h", "t", "t", "p", "s", ":", "/", "/", "s", "u", "p", "p", "o", "r", "t", ".",
     "h", "a", "l", "t", "e", "c", "h", ".", "c", "o", "m", "/", "p", "o", "r", "t",
     "a", "l", "/", "e", "n", "/", "k", "b", "/", "h", "a", "l", "t", "e", "c", "h",
     "/", "w", "i", "r", "i", "n", "g", "/", "p", "i", "n", "o", "u", "t", "s">>,
     <<"h", "t", "t", "p", "s", ":", "/", "/", "s", "u", "p", "p", "o", "r", "t", ".",
     "h", "a", "l", "t", "e", "c", "h", ".", "c", "o", "m", "/", "k", "b", "/", "a",
     "r", "t", "i", "c", "l", "e", "s", "/", "f", "u", "e", "l", "-", "m", "a", "p">>,
     <<"h", "t", "t", "p", "s", ":", "/", "/", "s", "u", "p", "p", "o", "r", "t", ".",
     "h", "a", "l", "t", "e", "c", "h", ".", "c", "o", "m", "/", "p", "o", "r", "t",
     "a", "l", "/", "k", "b", "/", "f", "a", "q">>,
     <<"h", "t", "t", "p", "s", ":", "/", "/", "s", "u", "p", "p", "o", "r", "t", ".",
     "h", "a", "l", "t", "e", "c", "h", ".", "c", "o", "m", "/", "d", "o", "c", "s",
     "/", "g", "u", "i", "d", "e", "s", "/", "i", "n", "t", "r", "o">>}

\* What _extract_breadcrumbs finds in a navigation trail
CrumbTexts ==
    {<<"K", "n", "o", "w", "l", "e", "d", "g", "e", " ", "B", "a", "s", "e">>,
     <<"H", "a", "l", "t", "e", "c", "h">>,
     <<"E", "n", "g", "i", "n", "e", " ", " ", "W", "i", "r", "i", "n", "g", "!">>}

PathTitles == {<<>>, <<"I", "C", "-", "7", " ", "D", "a", "s", "h">>}

PathContents == {<<>>, <<"l", "s", "1", " ", "s", "w", "a", "p">>}

InitPath ==
    /\ ProgramIdle
    /\ call \in {[fn |-> "create_output_path", url |-> u, title |-> t, content |-> c,
                  breadcrumbs |-> b] :
                    u \in PathUrls, t \in PathTitles, c \in PathContents,
                    b \in StringsUpTo(CrumbTexts, MaxCrumbs)}
    /\ ret = [done |-> FALSE]

CallPath ==
    /\ call.fn = "create_output_path"
    /\ ~ret.done
    /\ ret' = [done |-> TRUE,
               val |-> create_output_path(call.url, call.title, call.content,
                                          call.breadcrumbs)]
    /\ UNCHANGED <<call, schedVars, crawlVars>>

NextPath == CallPath

SpecPath == InitPath /\ [][NextPath]_vars

----------------------------------------------------------------------------
(* Properties of the output paths *)

\* The directory of a path: all its components but the file name
DirOf(path) == SubSeq(path, 1, Len(path) - 1)

\* The directory the category classifier gives
CategoryDir(c) ==
    OUTPUT_DIR \o Split(categorize_article(c.url, c.title, c.content)[1], "/")

\* C9: for a URL containing /kb/articles/ and a breadcrumb list of zero, one
\* or two entries, create_output_path puts the document in the directory
\* categorize_article returns.
C9_ArticlesUseClassifier ==
    (/\ call.fn = "create_output_path" /\ ret.done
     /\ Contains(call.url, ARTICLES_PATTERN)
     /\ Len(call.breadcrumbs) <= 2) =>
        DirOf(ret.val) = CategoryDir(call)

\* The segments of the path of a URL
UrlSegments(url) == Split(Strip(urlsplit(url).path, {"/"}), "/")

\* The segments of the path of a URL that remain when the first of the common
\* prefixes the path begins with has been removed
RemainingSegments(url) ==
    Only({Split(IF StartsWith(p, COMMON_PREFIXES[1]) THEN Drop(p, Len(COMMON_PREFIXES[1]))
                ELSE IF StartsWith(p, COMMON_PREFIXES[2]) THEN Drop(p, Len(COMMON_PREFIXES[2]))
                ELSE IF StartsWith(p, COMMON_PREFIXES[3]) THEN Drop(p, Len(COMMON_PREFIXES[3]))
                ELSE p, "/") :
            p \in {Strip(urlsplit(url).path, {"/"})}})

\* The slugs of the breadcrumbs after the first two, those that are not empty
LaterSlugs(breadcrumbs) ==
    DropEmpty([k \in 1..(Len(breadcrumbs) - 2) |-> create_slug(breadcrumbs[k + 2])])

\* C10 as stated: with more than two breadcrumbs the directory is the output
\* root followed by the slug of each breadcrumb after the first two; with at
\* most two breadcrumbs and a URL that is not an article URL it is the output
\* root followed by all segments of the URL path except the last.
C10_DirFromAllSegments ==
    (call.fn = "create_output_path" /\ ret.done) =>
        /\ Len(call.breadcrumbs) > 2 =>
             DirOf(ret.val) = OUTPUT_DIR \o LaterSlugs(call.breadcrumbs)
        /\ (Len(call.breadcrumbs) <= 2 /\ ~Contains(call.url, ARTICLES_PATTERN)) =>
             DirOf(ret.val) = OUTPUT_DIR \o DirOf(UrlSegments(call.url))

\* C10, amended: with more than two breadcrumbs the directory is the output
\* root followed by the slug of each breadcrumb after the first two, whatever
\* the URL; with at most two breadcrumbs and a URL that is not an article URL
\* it is the output root followed by the segments of the URL path that remain
\* after the first matching common prefix is removed, except the last.
C10_DirFromRemainingSegments ==
    (call.fn = "create_output_path" /\ ret.done) =>
        /\ Len(call.breadcrumbs) > 2 =>
             DirOf(ret.val) = OUTPUT_DIR \o LaterSlugs(call.breadcrumbs)
        /\ (Len(call.breadcrumbs) <= 2 /\ ~Contains(call.url, ARTICLES_PATTERN)) =>
             DirOf(ret.val) = OUTPUT_DIR \o DirOf(RemainingSegments(call.url))

\* A document with two breadcrumbs whose URL is not an article URL and begins
\* with a common prefix, placed below the output root
C10_Witness ==
    /\ call.fn = "create_output_path"
    /\ ret.done
    /\ Len(call.breadcrumbs) = 2
    /\ ~Contains(call.url, ARTICLES_PATTERN)
    /\ RemainingSegments(call.url) # UrlSegments(call.url)
    /\ Len(ret.val) > 2

----------------------------------------------------------------------------
(* Image rehosting, src/src/scraper.py: _process_images and
   _ensure_image_references, with get_image_filename of src/src/utils.py *)

MaxImages == 2

\* urlsplit raises ValueError for a netloc with one square bracket only
InvalidNetloc(url) ==
    Only({("[" \in Range(n)) # ("]" \in Range(n)) : n \in {urlsplit(url).netloc}})

\* Path(p).name: the last component of p
PathName(p) ==
    Only({IF parts = <<>> THEN <<>> ELSE parts[Len(parts)] :
            parts \in {Under(<<>>, Split(p, "/"))}})

\* str(n) for a natural number
RECURSIVE DecimalOf(_)
DecimalOf(n) ==
    IF n < 10 THEN <<Digits[n + 1]>>
    ELSE DecimalOf(n \div 10) \o <<Digits[(n % 10) + 1]>>

\* get_image_filename: the extensions that are kept
IMAGE_EXTENSIONS ==
    {<<".", "j", "p", "g">>, <<".", "j", "p", "e", "g">>, <<".", "p", "n", "g">>, <<".",
        "g", "i", "f">>, <<".", "w", "e", "b", "p">>, <<".", "s", "v", "g">>}

\* get_image_filename: Path(parsed.path).name, or image_<index> without one
ImageName(url, index) ==
    Only({IF n = <<>> THEN <<"i", "m", "a", "g", "e", "_">> \o DecimalOf(index) ELSE n :
            n \in {PathName(urlsplit(url).path)}})

\* get_image_filename: '.jpg' is appended to a name without an image extension
WithExtension(n) ==
    IF \E ext \in IMAGE_EXTENSIONS : EndsWith(n, ext) THEN n ELSE n \o <<".", "j", "p",
        "g">>

\* get_image_filename(url, index), for a URL without ';' in its path
get_image_filename(url, index) == clean_filename(WithExtension(ImageName(url, index)))

\* "".join(new + c for c in s) + new, what s.replace("", new) is
RECURSIVE Between(_, _)
Between(s, new) ==
    IF s = <<>> THEN new ELSE new \o <<Head(s)>> \o Between(Tail(s), new)

\* s.replace(old, new)
RECURSIVE Replace(_, _, _)
Replace(s, old, new) ==
    IF old = <<>> THEN Between(s, new)
    ELSE IF ~Contains(s, old) THEN s
    ELSE Only({Take(s, i - 1) \o new \o Replace(Drop(s, i - 1 + Len(old)), old, new) :
                i \in {Find(s, old)}})

\* f"![{alt_text}]({target}"
MdImage(alt_text, target) == <<"!", "[">> \o alt_text \o <<"]", "(">> \o target

\* calculate_relative_path_to_images(output_path): one '..' for every
\* directory between the output root and the document, then 'images'
calculate_relative_path_to_images(output_path) ==
    Join([k \in 1..(Len(output_path) - Len(OUTPUT_DIR) - 1) |-> <<".", ".">>]
            \o <<<<"i", "m", "a", "g", "e", "s">>>>, "/")

\* f"{relative_to_images}/{filename}"
RelativePath_Flat(relative_to_images, name) == <<"i", "m", "a", "g", "e", "s", "/">> \o name

RelativePath(relative_to_images, name) == relative_to_images \o <<"/">> \o name

\* _process_images: the Markdown image syntax with the given target is
\* replaced when it occurs
ReplaceMdImage(md, alt_text, target, relative_path) ==
    IF Contains(md, MdImage(alt_text, target))
    THEN Replace(md, MdImage(alt_text, target), MdImage(alt_text, relative_path))
    ELSE md

\* _process_images: the four replacements for one saved image
RewriteImage(md, src, alt_text, absolute_url, relative_path) ==
    Only({Only({Only({Replace(m3, absolute_url, relative_path) :
                        m3 \in {Replace(m2, src, relative_path)}}) :
                  m2 \in {ReplaceMdImage(m1, alt_text, absolute_url, relative_path)}}) :
            m1 \in {ReplaceMdImage(md, alt_text, src, relative_path)}})

\* What session.get, response.status, response.read and write_bytes can do
\* for one image: the image is saved, the status is not 200, the request or
\* the read raises, the write raises
Outcomes == {"ok", "status", "error", "save"}

\* image_path.write_bytes(content): the file of that name now holds the
\* bytes downloaded from absolute_url
write_bytes(files, name, absolute_url) ==
    {f \in files : f.name # name} \cup {[name |-> name, of |-> absolute_url]}

\* _process_images: the body of the try for image i (from 1) whose absolute
\* URL is known; st is the Markdown so far, the names written to IMAGES_DIR
\* and the relative path computed for every image
SaveImage(c, i, st, absolute_url, name) ==
    Only({[st EXCEPT !.md = RewriteImage(st.md, c.images[i].src, c.images[i].alt,
                                         absolute_url, relative_path),
                     !.saved = st.saved \cup {name},
                     !.files = write_bytes(st.files, name, absolute_url),
                     !.refs = [st.refs EXCEPT ![i] = relative_path]] :
            relative_path \in
                {RelativePath(calculate_relative_path_to_images(c.output_path), name)}})

ProcessImage(c, i, st) ==
    IF c.outcomes[i] = "ok"
    THEN Only({SaveImage(c, i, st, absolute_url, get_image_filename(absolute_url, i - 1)) :
                absolute_url \in {normalize_url(c.images[i].src, c.article_url)}})
    ELSE st

\* _process_images: for i, img_data in enumerate(images), from image i on.
\* normalize_url is called before the try, so its ValueError leaves the loop
\* and the function.
RECURSIVE ProcessFrom(_, _, _)
ProcessFrom(c, i, st) ==
    IF i > Len(c.images) \/ st.raised THEN st
    ELSE IF InvalidNetloc(c.images[i].src) THEN [st EXCEPT !.raised = TRUE]
    ELSE Only({ProcessFrom(c, i + 1, s2) : s2 \in {ProcessImage(c, i, st)}})

\* str(config.IMAGES_DIR.iterdir()): the repr of a generator object, at
\* whatever address the object has
IterdirRepr(addr) == <<"<", "g", "e", "n", "e", "r", "a", "t", "o", "r", " ", "o", "b",
    "j", "e", "c", "t", " ", "P", "a", "t", "h", ".", "i", "t", "e", "r", "d", "i", "r",
        " ", "a", "t", " ", "0", "x">> \o addr \o <<">">>

\* _ensure_image_references: the reference appended for one image
AppendReference(md, alt_text, relative_path) ==
    (IF EndsWith(Strip(md, Whitespace), <<"\n", "\n">>) THEN md ELSE md \o <<"\n", "\n">>)
    \o (IF alt_text # <<>>
        THEN MdImage(alt_text, relative_path) \o <<")", "\n", "\n">>
        ELSE <<"\n">> \o MdImage(<<"I", "m", "a", "g", "e">>, relative_path) \o <<")",
            "\n", "\n">>)

\* _ensure_image_references: one image
EnsureImage(c, i, md, relative_path, name) ==
    IF ~Contains(md, relative_path) /\ Contains(IterdirRepr(c.addr), name)
    THEN AppendReference(md, c.images[i].alt, relative_path)
    ELSE md

\* _ensure_image_references: absolute_url or src
UrlOrSrc(src) ==
    Only({IF absolute_url # <<>> THEN absolute_url ELSE src :
            absolute_url \in {normalize_url(src, <<>>)}})

\* _ensure_image_references, from image i on
RECURSIVE EnsureFrom(_, _, _)
EnsureFrom(c, i, md) ==
    IF i > Len(c.images) THEN md
    ELSE Only({Only({EnsureFrom(c, i + 1, m2) :
                        m2 \in {EnsureImage(c, i, md,
                                    RelativePath(calculate_relative_path_to_images(
                                                    c.output_path), name),
                                    name)}}) :
                name \in {get_image_filename(UrlOrSrc(c.images[i].src), i - 1)}})

\* _process_images(markdown_content, images, article_url, output_path) under
\* the given outcomes of the downloads: the Markdown returned, or raised
process_images(c) ==
    Only({IF st.raised THEN st ELSE [st EXCEPT !.md = EnsureFrom(c, 1, st.md)] :
            st \in {ProcessFrom(c, 1, [md |-> c.markdown_content, saved |-> {},
                                       files |-> {},
                                       refs |-> [i \in 1..Len(c.images) |-> <<>>],
                                       raised |-> FALSE])}})

\* Documents at depth 0, 1 and 3 below the output root
DocPaths ==
    {OUTPUT_DIR \o <<<<"f", "a", "q", ".", "m", "d">>>>,
     OUTPUT_DIR \o <<<<"w", "i", "r", "i", "n", "g">>, <<"p", "i", "n", "o", "u", "t",
         "s", ".", "m", "d">>>>,
     OUTPUT_DIR \o <<<<"t", "e", "c", "h", "n", "i", "c", "a", "l", "-", "l", "i", "b",
         "r", "a", "r", "y">>, <<"e", "n", "g", "i", "n", "e", "s">>, <<"n", "i", "s",
             "s", "a", "n">>,
                     <<"r", "b", "2", "6", "-", "w", "i", "r", "i", "n", "g", "-", "g",
                         "u", "i", "d", "e", ".", "m", "d">>>>}

ARTICLE_URL ==
    <<"h", "t", "t", "p", "s", ":", "/", "/", "s", "u", "p", "p", "o", "r", "t", ".",
        "h", "a", "l", "t", "e", "c", "h", ".", "c", "o", "m", "/", "k", "b", "/", "a",
            "r", "t", "i", "c", "l", "e", "s", "/", "r", "b", "2", "6", "-", "w", "i",
                "r", "i", "n", "g", "-", "g", "u", "i", "d", "e">>

\* What _extract_images finds in a page: src and alt of its img elements
PageImages ==
    {[src |-> <<"/", "i", "m", "g", "/", "d", "i", "a", "g", "r", "a", "m", ".", "p",
        "n", "g">>, alt |-> <<"P", "i", "n", "o", "u", "t">>],
     [src |-> <<"h", "t", "t", "p", "s", ":", "/", "/", "c", "d", "n", ".", "h", "a",
         "l", "t", "e", "c", "h", ".", "c", "o", "m", "/", "p", "h", "o", "t", "o", ".",
             "j", "p", "e", "g">>, alt |-> <<>>],
     [src |-> <<"m", "e", "d", "i", "a", "/", "c", "h", "a", "r", "t">>, alt |-> <<"C",
         "h", "a", "r", "t">>],
     [src |-> <<"h", "t", "t", "p", ":", "/", "/", "[", "c", "d", "n", "/", "x", ".",
         "p", "n", "g">>, alt |-> <<"X">>],
     [src |-> <<"d", "i", "a", "g", "r", "a", "m", ".", "p", "n", "g">>,
      alt |-> <<"W", "i", "r", "i", "n", "g">>]}

\* The converted Markdown: a heading, the images of the page that lie inside
\* the content (all of them or none), and text
RECURSIVE MdImages(_)
MdImages(images) ==
    IF images = <<>> THEN <<>>
    ELSE MdImage(Head(images).alt, Head(images).src) \o <<")", "\n", "\n">>
            \o MdImages(Tail(images))

MarkdownOf(images, referenced) ==
    <<"#", " ", "R", "B", "2", "6">> \o <<"\n",
        "\n">> \o (IF referenced THEN MdImages(images) ELSE <<>>)
        \o <<"T", "e", "x", "t", ".">>

Addresses == {<<"7", "f", "3", "a", "5", "c", "0", "e", "1", "d", "2", "0">>, <<"7",
    "f", "b", "a", "d", "c", "0", "f", "f", "e", "e", "0">>}

\* One call with k images: the images, whether the Markdown refers to them,
\* the document, the outcome of every download, the address of the generator
ImageCalls(k) ==
    {[fn |-> "_process_images", markdown_content |-> MarkdownOf(imgs, r),
      images |-> imgs, article_url |-> ARTICLE_URL, output_path |-> p,
      outcomes |-> o, addr |-> a] :
        imgs \in [1..k -> PageImages], r \in BOOLEAN, p \in DocPaths,
        o \in [1..k -> Outcomes], a \in Addresses}

InitImages ==
    /\ ProgramIdle
    /\ call \in UNION {ImageCalls(k) : k \in 1..MaxImages}
    /\ ret = [done |-> FALSE]

CallImages ==
    /\ call.fn = "_process_images"
    /\ ~ret.done
    /\ ret' = [done |-> TRUE, val |-> process_images(call)]
    /\ UNCHANGED <<call, schedVars, crawlVars>>

NextImages == CallImages

SpecImages == InitImages /\ [][NextImages]_vars

----------------------------------------------------------------------------
(* Properties of image rehosting *)

\* The number of directories between the output root and a document
DirectoryLevels(output_path) == Len(DirOf(output_path)) - Len(OUTPUT_DIR)

\* d repetitions of '../'
UpLevels(d) == [k \in 1..(3 * d) |-> IF k % 3 = 0 THEN "/" ELSE "."]

\* _process_images has returned or raised
ImagesDone == call.fn = "_process_images" /\ ret.done

\* The images of the call that were downloaded and saved
SavedImages ==
    {i \in 1..Len(call.images) : call.outcomes[i] = "ok" /\ ret.val.refs[i] # <<>>}

C12_ImageFailuresSkipped ==
    ImagesDone =>
        /\ ~ret.val.raised
        /\ \A i \in 1..Len(call.images) :
            (call.outcomes[i] = "ok" /\ ~InvalidNetloc(call.images[i].src))
                => ret.val.refs[i] # <<>>

\* C28: two saved images with different source URLs have different file
\* names, so the file of every saved image holds the bytes downloaded from
\* its own URL.
C28_DistinctImageFiles ==
    (ImagesDone /\ ~ret.val.raised) =>
        \A i \in SavedImages :
            [name |-> get_image_filename(
                        normalize_url(call.images[i].src, call.article_url), i - 1),
             of |-> normalize_url(call.images[i].src, call.article_url)]
                \in ret.val.files

\* C30: after _process_images, the Markdown reference of every saved image
\* that the page's Markdown referred to by its source is the same reference
\* with the relative path of the saved file as its target.
C30_RewrittenOnce ==
    (ImagesDone /\ ~ret.val.raised) =>
        \A i \in SavedImages :
            Contains(call.markdown_content,
                     MdImage(call.images[i].alt, call.images[i].src) \o <<")">>)
                => Contains(ret.val.md,
                            MdImage(call.images[i].alt, ret.val.refs[i]) \o <<")">>)

\* C13: after _process_images the Markdown contains the local path of every
\* image that was saved: a saved image the rewriting left unreferenced has
\* had its reference appended.
C13_UnreferencedAppended ==
    (ImagesDone /\ ~ret.val.raised) =>
        \A i \in SavedImages : Contains(ret.val.md, ret.val.refs[i])

----------------------------------------------------------------------------
(* Discovery, src/src/crawler.py, inside the runs of main.py: discover_only,
   scrape_all, and scrape_all reusing logs/site_map.json *)

\* The number of pages of a site whose navigation raises
MaxFailing == 1

\* _discover_page(self, url, depth=0, max_depth=5)
max_depth == 5

\* config.KB_URL
KB_URL == BASE_URL \o <<"/", "p", "o", "r", "t", "a", "l", "/", "e", "n", "/", "k", "b",
    "/", "h", "a", "l", "t", "e", "c", "h">>

\* _is_article_url: article_patterns
ARTICLE_PATTERNS ==
    {<<"/", "a", "r", "t", "i", "c", "l", "e", "s", "/">>, <<"/", "a", "r", "t", "i",
        "c", "l", "e", "/">>, <<"/", "s", "o", "l", "u", "t", "i", "o", "n", "s",
            "/">>, <<"/", "h", "o", "w", "-", "t", "o", "/">>, <<"/", "g", "u", "i",
                "d", "e", "/">>, <<"/", "t", "u", "t", "o", "r", "i", "a", "l", "/">>}

\* _is_category_url: category_patterns
CATEGORY_PATTERNS == {<<"/", "c", "a", "t", "e", "g", "o", "r", "y", "/">>, <<"/", "c",
    "a", "t", "e", "g", "o", "r", "i", "e", "s", "/">>, <<"/", "s", "e", "c", "t", "i",
        "o", "n", "/">>, <<"/", "t", "o", "p", "i", "c", "/">>}

\* _is_article_url(url, link_text)
is_article_url(url, link_text) ==
    Only({\/ \E pattern \in ARTICLE_PATTERNS : Contains(url_lower, pattern)
          \/ /\ EndsWith(url_lower, <<".", "h", "t", "m",
              "l">>) \/ Contains(url_lower, <<"/", "k", "b", "/">>)
             /\ Len(link_text) > 10 :
            url_lower \in {Lower(url)}})

\* _is_category_url(url)
is_category_url(url) ==
    Only({\/ \E pattern \in CATEGORY_PATTERNS : Contains(url_lower, pattern)
          \/ Contains(url_lower, <<"/", "k", "b", "/">>) /\ ~is_article_url(url, <<>>) :
            url_lower \in {Lower(url)}})

\* soup.find_all('a', href=True) of the page at url: href and text of its
\* links; a URL the site does not have gives a page without links
LinksOf(url) == IF url \in DOMAIN call.site THEN call.site[url] ELSE <<>>

\* The innermost call of _discover_page
Top == stack[Len(stack)]

\* return, or the end of the except clause: back in the caller
Return == SubSeq(stack, 1, Len(stack) - 1)

\* The innermost call goes on at position at
Advance(at) == [stack EXCEPT ![Len(stack)].at = at]

\* self.playwright.chromium.launch of HaltechScraper.initialize
ScraperInitialize ==
    /\ stage = "start"
    /\ call.mode \in {"full", "sitemap"}
    /\ browsers' = browsers \cup {"scraper"}
    /\ stage' = "initialized"
    /\ UNCHANGED <<stack, visited_urls, article_urls, fetched, site_map>>
    /\ UNCHANGED <<schedVars, fnVars>>

\* scrape_all(use_existing_sitemap=True) with articles in the stored site map
LoadSitemap ==
    /\ stage = "initialized"
    /\ call.mode = "sitemap"
    /\ call.stored
    /\ stage' = "scrape"
    /\ UNCHANGED <<browsers, stack, visited_urls, article_urls, fetched, site_map>>
    /\ UNCHANGED <<schedVars, fnVars>>

\* discover_site_structure: initialize_browser launches the crawler's own
\* browser, then _discover_page(config.KB_URL)
StartDiscovery ==
    /\ \/ stage = "start" /\ call.mode = "discover"
       \/ stage = "initialized" /\ (call.mode = "full" \/ ~call.stored)
    /\ browsers' = browsers \cup {"crawler"}
    /\ stack' = <<[url |-> KB_URL, depth |-> 0, at |-> "enter", k |-> 1]>>
    /\ stage' = "crawl"
    /\ UNCHANGED <<visited_urls, article_urls, fetched, site_map>>
    /\ UNCHANGED <<schedVars, fnVars>>

EnterPage_Unbounded(normalized_url) ==
    IF Top.url \in visited_urls \/ ~is_valid_url(normalized_url)
    THEN stack' = Return /\ UNCHANGED visited_urls
    ELSE /\ visited_urls' = visited_urls \cup {normalized_url}
         /\ stack' = [stack EXCEPT ![Len(stack)] =
                        [url |-> normalized_url, depth |-> Top.depth, at |-> "goto",
                         k |-> 1]]

\* _discover_page up to page.goto: the depth, visited and validity checks
EnterPage(normalized_url) ==
    IF Top.depth > max_depth \/ Top.url \in visited_urls \/ ~is_valid_url(normalized_url)
    THEN stack' = Return /\ UNCHANGED visited_urls
    ELSE /\ visited_urls' = visited_urls \cup {normalized_url}
         /\ stack' = [stack EXCEPT ![Len(stack)] =
                        [url |-> normalized_url, depth |-> Top.depth, at |-> "goto",
                         k |-> 1]]

Enter ==
    /\ stage = "crawl"
    /\ stack # <<>>
    /\ Top.at = "enter"
    /\ EnterPage(normalize_url(Top.url, <<>>))
    /\ UNCHANGED <<stage, browsers, article_urls, fetched, site_map>>
    /\ UNCHANGED <<schedVars, fnVars>>

\* page.goto, sleep, page.content: the page is loaded, or the exception is
\* logged and the call returns
Navigate ==
    /\ stage = "crawl"
    /\ stack # <<>>
    /\ Top.at = "goto"
    /\ fetched' = Append(fetched, [url |-> Top.url, depth |-> Top.depth])
    /\ stack' = IF Top.url \in call.failing THEN Return ELSE Advance("links")
    /\ UNCHANGED <<stage, browsers, visited_urls, article_urls, site_map>>
    /\ UNCHANGED <<schedVars, fnVars>>

\* The call that goes on with the next link of its page
NextLink == [stack EXCEPT ![Len(stack)].k = @ + 1]

\* for link in links: one link whose absolute URL is known
FollowLink(absolute_url, link_text) ==
    IF ~is_valid_url(absolute_url)
    THEN stack' = NextLink /\ UNCHANGED article_urls
    ELSE IF is_article_url(absolute_url, link_text)
    THEN stack' = NextLink /\ article_urls' = article_urls \cup {absolute_url}
    ELSE IF is_category_url(absolute_url) /\ absolute_url \notin visited_urls
    THEN /\ stack' = Append(NextLink, [url |-> absolute_url, depth |-> Top.depth + 1,
                                       at |-> "enter", k |-> 1])
         /\ UNCHANGED article_urls
    ELSE stack' = NextLink /\ UNCHANGED article_urls

\* for link in links: the next link of the page, the end of the loop, or the
\* ValueError of normalize_url, which ends the loop in the except clause
Link ==
    /\ stage = "crawl"
    /\ stack # <<>>
    /\ Top.at = "links"
    /\ IF Top.k > Len(LinksOf(Top.url)) \/ InvalidNetloc(LinksOf(Top.url)[Top.k].href)
       THEN stack' = Return /\ UNCHANGED article_urls
       ELSE FollowLink(normalize_url(LinksOf(Top.url)[Top.k].href, Top.url),
                       LinksOf(Top.url)[Top.k].text)
    /\ UNCHANGED <<stage, browsers, visited_urls, fetched, site_map>>
    /\ UNCHANGED <<schedVars, fnVars>>

\* _save_site_map, after _discover_page(config.KB_URL) has returned
SaveSiteMap ==
    /\ stage = "crawl"
    /\ stack = <<>>
    /\ site_map' = [saved |-> TRUE, articles |-> article_urls]
    /\ stage' = "saved"
    /\ UNCHANGED <<browsers, stack, visited_urls, article_urls, fetched>>
    /\ UNCHANGED <<schedVars, fnVars>>

\* finally: close_browser; discover_only ends here, scrape_all goes on
CloseBrowser ==
    /\ stage = "saved"
    /\ browsers' = browsers \ {"crawler"}
    /\ stage' = IF call.mode = "discover" THEN "end" ELSE "scrape"
    /\ UNCHANGED <<stack, visited_urls, article_urls, fetched, site_map>>
    /\ UNCHANGED <<schedVars, fnVars>>

\* _scrape_articles, _generate_index_files and the summary, with the browser
\* HaltechScraper.initialize launched; nothing when no article was found
ScrapeArticles ==
    /\ stage = "scrape"
    /\ stage' = "cleanup"
    /\ UNCHANGED <<browsers, stack, visited_urls, article_urls, fetched, site_map>>
    /\ UNCHANGED <<schedVars, fnVars>>

\* finally: cleanup closes the scraper's browser
Cleanup ==
    /\ stage = "cleanup"
    /\ browsers' = browsers \ {"scraper"}
    /\ stage' = "end"
    /\ UNCHANGED <<stack, visited_urls, article_urls, fetched, site_map>>
    /\ UNCHANGED <<schedVars, fnVars>>

\* A site whose category c5 is linked from the start page and, five levels
\* down, from c4
ChainSite ==
    (<<"h", "t", "t", "p", "s", ":", "/", "/", "s", "u", "p", "p", "o", "r", "t", ".",
        "h", "a", "l", "t", "e", "c", "h", ".", "c", "o", "m", "/", "p", "o", "r", "t",
            "a", "l", "/", "e", "n", "/", "k", "b", "/", "h", "a", "l", "t", "e", "c", "h">>
        :> <<[href |-> <<"/", "p", "o", "r", "t", "a", "l", "/", "e", "n", "/", "k",
            "b", "/", "h", "a", "l", "t", "e", "c", "h", "/", "f", "a", "q">>,
           text |-> <<"F", "A", "Q">>],
          [href |-> <<"/", "p", "o", "r", "t", "a", "l", "/", "e", "n", "/", "k", "b",
              "/", "h", "a", "l", "t", "e", "c", "h", "/", "c", "1">>,
           text |-> <<"W", "i", "r", "i", "n", "g">>],
          [href |-> <<"/", "p", "o", "r", "t", "a", "l", "/", "e", "n", "/", "k", "b",
              "/", "h", "a", "l", "t", "e", "c", "h", "/", "c", "5">>,
           text |-> <<"T", "u", "n", "i", "n", "g">>],
          [href |-> <<"/", "p", "o", "r", "t", "a", "l", "/", "e", "n", "/", "k", "b",
              "/", "a", "r", "t", "i", "c", "l", "e", "s", "/", "r", "b", "2", "6", "-",
                  "w", "i", "r", "i", "n", "g">>,
           text |-> <<"R", "B", "2", "6", " ", "w", "i", "r", "i", "n", "g", " ", "g",
               "u", "i", "d", "e">>]>>)
    @@
    (<<"h", "t", "t", "p", "s", ":", "/", "/", "s", "u", "p", "p", "o", "r", "t", ".",
        "h", "a", "l", "t", "e", "c", "h", ".", "c", "o", "m", "/", "p", "o", "r", "t",
            "a", "l", "/", "e", "n", "/", "k", "b", "/", "h", "a", "l", "t", "e", "c",
                "h", "/", "f", "a", "q">>
        :> <<[href |-> <<"/", "p", "o", "r", "t", "a", "l", "/", "e", "n", "/", "k",
            "b", "/", "a", "r", "t", "i", "c", "l", "e", "s", "/", "f", "u", "e", "l",
                "-", "m", "a", "p">>,
           text |-> <<"F", "u", "e", "l", " ", "m", "a", "p">>]>>)
    @@
    (<<"h", "t", "t", "p", "s", ":", "/", "/", "s", "u", "p", "p", "o", "r", "t", ".",
        "h", "a", "l", "t", "e", "c", "h", ".", "c", "o", "m", "/", "p", "o", "r", "t",
            "a", "l", "/", "e", "n", "/", "k", "b", "/", "h", "a", "l", "t", "e", "c",
                "h", "/", "c", "1">>
        :> <<[href |-> <<"/", "p", "o", "r", "t", "a", "l", "/", "e", "n", "/", "k",
            "b", "/", "h", "a", "l", "t", "e", "c", "h", "/", "c", "2">>,
           text |-> <<"M", "o", "r", "e">>]>>)
    @@
    (<<"h", "t", "t", "p", "s", ":", "/", "/", "s", "u", "p", "p", "o", "r", "t", ".",
        "h", "a", "l", "t", "e", "c", "h", ".", "c", "o", "m", "/", "p", "o", "r", "t",
            "a", "l", "/", "e", "n", "/", "k", "b", "/", "h", "a", "l", "t", "e", "c",
                "h", "/", "c", "2">>
        :> <<[href |-> <<"/", "p", "o", "r", "t", "a", "l", "/", "e", "n", "/", "k",
            "b", "/", "h", "a", "l", "t", "e", "c", "h", "/", "c", "3">>,
           text |-> <<"M", "o", "r", "e">>]>>)
    @@
    (<<"h", "t", "t", "p", "s", ":", "/", "/", "s", "u", "p", "p", "o", "r", "t", ".",
        "h", "a", "l", "t", "e", "c", "h", ".", "c", "o", "m", "/", "p", "o", "r", "t",
            "a", "l", "/", "e", "n", "/", "k", "b", "/", "h", "a", "l", "t", "e", "c",
                "h", "/", "c", "3">>
        :> <<[href |-> <<"/", "p", "o", "r", "t", "a", "l", "/", "e", "n", "/", "k",
            "b", "/", "h", "a", "l", "t", "e", "c", "h", "/", "c", "4">>,
           text |-> <<"M", "o", "r", "e">>]>>)
    @@
    (<<"h", "t", "t", "p", "s", ":", "/", "/", "s", "u", "p", "p", "o", "r", "t", ".",
        "h", "a", "l", "t", "e", "c", "h", ".", "c", "o", "m", "/", "p", "o", "r", "t",
            "a", "l", "/", "e", "n", "/", "k", "b", "/", "h", "a", "l", "t", "e", "c",
                "h", "/", "c", "4">>
        :> <<[href |-> <<"/", "p", "o", "r", "t", "a", "l", "/", "e", "n", "/", "k",
            "b", "/", "h", "a", "l", "t", "e", "c", "h", "/", "c", "5">>,
           text |-> <<"M", "o", "r", "e">>]>>)
    @@
    (<<"h", "t", "t", "p", "s", ":", "/", "/", "s", "u", "p", "p", "o", "r", "t", ".",
        "h", "a", "l", "t", "e", "c", "h", ".", "c", "o", "m", "/", "p", "o", "r", "t",
            "a", "l", "/", "e", "n", "/", "k", "b", "/", "h", "a", "l", "t", "e", "c",
                "h", "/", "c", "5">>
        :> <<[href |-> <<"/", "p", "o", "r", "t", "a", "l", "/", "e", "n", "/", "k",
            "b", "/", "h", "a", "l", "t", "e", "c", "h", "/", "c", "6">>,
           text |-> <<"M", "o", "r", "e">>]>>)
    @@
    (<<"h", "t", "t", "p", "s", ":", "/", "/", "s", "u", "p", "p", "o", "r", "t", ".",
        "h", "a", "l", "t", "e", "c", "h", ".", "c", "o", "m", "/", "p", "o", "r", "t",
            "a", "l", "/", "e", "n", "/", "k", "b", "/", "h", "a", "l", "t", "e", "c",
                "h", "/", "c", "6">>
        :> <<[href |-> <<"/", "p", "o", "r", "t", "a", "l", "/", "e", "n", "/", "k",
            "b", "/", "a", "r", "t", "i", "c", "l", "e", "s", "/", "f", "u", "e", "l",
                "-", "m", "a", "p">>,
           text |-> <<"F", "u", "e", "l", " ", "m", "a", "p">>]>>)

\* A site whose categories link to each other and back to the start page
RingSite ==
    (<<"h", "t", "t", "p", "s", ":", "/", "/", "s", "u", "p", "p", "o", "r", "t", ".",
        "h", "a", "l", "t", "e", "c", "h", ".", "c", "o", "m", "/", "p", "o", "r", "t",
            "a", "l", "/", "e", "n", "/", "k", "b", "/", "h", "a", "l", "t", "e", "c", "h">>
        :> <<[href |-> <<"/", "p", "o", "r", "t", "a", "l", "/", "e", "n", "/", "k",
            "b", "/", "a", "r", "t", "i", "c", "l", "e", "s", "/", "r", "b", "2", "6",
                "-", "w", "i", "r", "i", "n", "g">>,
           text |-> <<"R", "B", "2", "6", " ", "w", "i", "r", "i", "n", "g", " ", "g",
               "u", "i", "d", "e">>],
          [href |-> <<"e", "c", "u">>,
           text |-> <<"E", "C", "U">>],
          [href |-> <<"h", "t", "t", "p", "s", ":", "/", "/", "s", "u", "p", "p", "o",
              "r", "t", ".", "h", "a", "l", "t", "e", "c", "h", ".", "c", "o", "m", "/",
                  "p", "o", "r", "t", "a", "l", "/", "e", "n", "/", "k", "b", "/", "h",
                      "a", "l", "t", "e", "c", "h", "/", "d", "a", "s", "h", "/">>,
           text |-> <<"D", "a", "s", "h">>],
          [href |-> <<"h", "t", "t", "p", "s", ":", "/", "/", "w", "w", "w", ".", "h",
              "a", "l", "t", "e", "c", "h", ".", "c", "o", "m", "/", "s", "h", "o", "p">>,
           text |-> <<"S", "h", "o", "p">>],
          [href |-> <<"/", "p", "o", "r", "t", "a", "l", "/", "e", "n", "/", "l", "o",
              "g", "i", "n">>,
           text |-> <<"S", "i", "g", "n", " ", "i", "n">>]>>)
    @@
    (<<"h", "t", "t", "p", "s", ":", "/", "/", "s", "u", "p", "p", "o", "r", "t", ".",
        "h", "a", "l", "t", "e", "c", "h", ".", "c", "o", "m", "/", "p", "o", "r", "t",
            "a", "l", "/", "e", "n", "/", "k", "b", "/", "h", "a", "l", "t", "e", "c",
                "h", "/", "e", "c", "u">>
        :> <<[href |-> <<"/", "p", "o", "r", "t", "a", "l", "/", "e", "n", "/", "k",
            "b", "/", "h", "a", "l", "t", "e", "c", "h">>,
           text |-> <<"H", "o", "m", "e">>],
          [href |-> <<"d", "a", "s", "h", "#", "t", "o", "p">>,
           text |-> <<"D", "a", "s", "h">>],
          [href |-> <<"/", "p", "o", "r", "t", "a", "l", "/", "e", "n", "/", "k", "b",
              "/", "a", "r", "t", "i", "c", "l", "e", "s", "/", "f", "u", "e", "l", "-",
                  "m", "a", "p">>,
           text |-> <<"F", "u", "e", "l", " ", "m", "a", "p">>]>>)
    @@
    (<<"h", "t", "t", "p", "s", ":", "/", "/", "s", "u", "p", "p", "o", "r", "t", ".",
        "h", "a", "l", "t", "e", "c", "h", ".", "c", "o", "m", "/", "p", "o", "r", "t",
            "a", "l", "/", "e", "n", "/", "k", "b", "/", "h", "a", "l", "t", "e", "c",
                "h", "/", "d", "a", "s", "h">>
        :> <<[href |-> <<"e", "c", "u">>,
           text |-> <<"E", "C", "U">>],
          [href |-> <<"/", "p", "o", "r", "t", "a", "l", "/", "e", "n", "/", "k", "b",
              "/", "a", "r", "t", "i", "c", "l", "e", "s", "/", "f", "u", "e", "l", "-",
                  "m", "a", "p", "?", "r", "e", "f", "=", "d", "a", "s", "h">>,
           text |-> <<"F", "u", "e", "l", " ", "m", "a", "p">>]>>)

\* A site whose links carry extra trailing slashes and a fragment, and whose
\* start page is linked once under a long anchor text
SlashSite ==
    (<<"h", "t", "t", "p", "s", ":", "/", "/", "s", "u", "p", "p", "o", "r", "t", ".",
        "h", "a", "l", "t", "e", "c", "h", ".", "c", "o", "m", "/", "p", "o", "r", "t",
            "a", "l", "/", "e", "n", "/", "k", "b", "/", "h", "a", "l", "t", "e", "c", "h">>
        :> <<[href |-> <<"/", "p", "o", "r", "t", "a", "l", "/", "e", "n", "/", "k",
            "b", "/", "h", "a", "l", "t", "e", "c", "h", "/", "e", "c", "u">>,
           text |-> <<"E", "C", "U">>],
          [href |-> <<"/", "p", "o", "r", "t", "a", "l", "/", "e", "n", "/", "k", "b",
              "/", "h", "a", "l", "t", "e", "c", "h", "/", "e", "c", "u", "/", "/">>,
           text |-> <<"E", "C", "U">>],
          [href |-> <<"/", "p", "o", "r", "t", "a", "l", "/", "e", "n", "/", "k", "b",
              "/", "h", "a", "l", "t", "e", "c", "h", "/", "d", "a", "s", "h", "/", "/",
                  "/", "#", "t", "o", "p">>,
           text |-> <<"D", "a", "s", "h">>]>>)
    @@
    (<<"h", "t", "t", "p", "s", ":", "/", "/", "s", "u", "p", "p", "o", "r", "t", ".",
        "h", "a", "l", "t", "e", "c", "h", ".", "c", "o", "m", "/", "p", "o", "r", "t",
            "a", "l", "/", "e", "n", "/", "k", "b", "/", "h", "a", "l", "t", "e", "c",
                "h", "/", "e", "c", "u">>
        :> <<[href |-> <<"/", "p", "o", "r", "t", "a", "l", "/", "e", "n", "/", "k",
            "b", "/", "h", "a", "l", "t", "e", "c", "h">>,
           text |-> <<"K", "n", "o", "w", "l", "e", "d", "g", "e", " ", "b", "a", "s",
               "e", " ", "h", "o", "m", "e">>],
          [href |-> <<"/", "p", "o", "r", "t", "a", "l", "/", "e", "n", "/", "k", "b",
              "/", "h", "a", "l", "t", "e", "c", "h", "/", "e", "c", "u", "/", "/">>,
           text |-> <<"E", "C", "U">>]>>)
    @@
    (<<"h", "t", "t", "p", "s", ":", "/", "/", "s", "u", "p", "p", "o", "r", "t", ".",
        "h", "a", "l", "t", "e", "c", "h", ".", "c", "o", "m", "/", "p", "o", "r", "t",
        "a", "l", "/", "e", "n", "/", "k", "b", "/", "h", "a", "l", "t", "e", "c", "h",
        "/", "d", "a", "s", "h", "/">>
        :> <<>>)

Sites == {ChainSite, RingSite, SlashSite}

\* The pages of a site that do not load: at most MaxFailing of them
FailingSets(pages) == {F \in SUBSET pages : Cardinality(F) <= MaxFailing}

InitDiscovery ==
    /\ SchedulerIdle
    /\ call \in {[fn |-> "discover", mode |-> m, stored |-> st, site |-> w,
                  failing |-> F] :
                    m \in {"discover", "full", "sitemap"}, st \in BOOLEAN,
                    w \in Sites, F \in FailingSets(UNION {DOMAIN x : x \in Sites})}
    /\ (call.mode = "sitemap" \/ ~call.stored)
    /\ call.failing \subseteq DOMAIN call.site
    /\ ret = [done |-> FALSE]
    /\ stage = "start"
    /\ browsers = {}
    /\ stack = <<>>
    /\ visited_urls = {}
    /\ article_urls = {}
    /\ fetched = <<>>
    /\ site_map = [saved |-> FALSE]

NextDiscovery ==
    \/ ScraperInitialize
    \/ LoadSitemap
    \/ StartDiscovery
    \/ Enter
    \/ Navigate
    \/ Link
    \/ SaveSiteMap
    \/ CloseBrowser
    \/ ScrapeArticles
    \/ Cleanup

SpecDiscovery == InitDiscovery /\ [][NextDiscovery]_vars

----------------------------------------------------------------------------
(* Properties of discovery and of the browser instances *)

\* C17: at every instant of a run, whatever its mode, at most one launched
\* browser exists in the process.
C17_SingleBrowser == Cardinality(browsers) <= 1

\* The category pages the links of a page lead to, when the page loads
Follows(url) ==
    IF url \in call.failing THEN {}
    ELSE {normalize_url(normalize_url(LinksOf(url)[k].href, url), <<>>) :
            k \in {j \in 1..Len(LinksOf(url)) :
                    Only({/\ is_valid_url(a)
                          /\ ~is_article_url(a, LinksOf(url)[j].text)
                          /\ is_category_url(a) :
                            a \in {normalize_url(LinksOf(url)[j].href, url)}})}}

\* The pages within n links of the start page through pages that load
RECURSIVE WithinDepth(_)
WithinDepth(n) ==
    IF n = 0 THEN {normalize_url(KB_URL, <<>>)}
    ELSE Only({w \cup UNION {Follows(url) : url \in w} : w \in {WithinDepth(n - 1)}})

\* C19: when discovery is over after the navigation of a page failed, the site
\* map is saved with the articles found and every page within max_depth links
\* of the start page through pages that load has been visited.
C19_ErrorsStayLocal ==
    (call.fn = "discover" /\ stage \in {"saved", "scrape", "cleanup", "end"}
        /\ \E i \in 1..Len(fetched) : fetched[i].url \in call.failing) =>
        /\ site_map = [saved |-> TRUE, articles |-> article_urls]
        /\ WithinDepth(max_depth) \subseteq visited_urls

\* How far a call of _discover_page has come: the link it is at, and within
\* one link the check, the navigation and the loop; a call that waits for an
\* inner call is still at the link it followed
Progress(i) ==
    3 * (IF i < Len(stack) THEN stack[i].k - 1 ELSE stack[i].k)
        + (CASE stack[i].at = "enter" -> 0 [] stack[i].at = "goto" -> 1
             [] stack[i].at = "links" -> 2)

\* The traversal has moved on: the first call whose progress differs has
\* advanced, or an inner call has begun
MovedOn ==
    \E i \in 1..Len(stack') :
        /\ \A j \in 1..(i - 1) : j <= Len(stack) /\ Progress(j)' = Progress(j)
        /\ i <= Len(stack) => Progress(i)' > Progress(i)

\* C25: discovery terminates on every site, with link cycles and failing
\* pages: no call is nested deeper than max_depth + 1, every call is at one of
\* its three steps, every step of the traversal moves on in the depth-first
\* order of the bounded link tree, and no page is fetched at a depth greater
\* than max_depth.
C25_DiscoveryTerminates ==
    [][/\ Len(stack') <= max_depth + 2
       /\ \A i \in 1..Len(stack') :
            /\ stack'[i].depth = i - 1
            /\ stack'[i].at \in {"enter", "goto", "links"}
            /\ stack'[i].k <= Len(LinksOf(stack'[i].url)) + 1
       /\ \A i \in 1..Len(fetched') : fetched'[i].depth <= max_depth
       /\ (stack # <<>> /\ stack' # <<>>) => MovedOn]_vars

C25_Witness ==
    /\ stage = "end"
    /\ \E i \in 1..Len(fetched) : fetched[i].url \in call.failing
    /\ \E i \in 1..Len(fetched) : fetched[i].depth = max_depth
    /\ \E i, j \in 1..Len(fetched) : i # j /\ fetched[i].url = fetched[j].url

\* C26: every page is navigated to at most once in a discovery, and every
\* member of visited_urls is a fixed point of normalize_url.
C26_FetchedOnce ==
    /\ \A i, j \in 1..Len(fetched) : fetched[i].url = fetched[j].url => i = j
    /\ \A url \in visited_urls : normalize_url(url, <<>>) = url

\* C29: when discovery is over, no URL is both in article_urls and in
\* visited_urls.
C29_ArticleOrCategory ==
    (call.fn = "discover" /\ stage \in {"saved", "scrape", "cleanup", "end"}) =>
        article_urls \cap visited_urls = {}

----------------------------------------------------------------------------
(* The index builder, src/src/scraper.py: _generate_index_files, over the
   files the run wrote below the output root. A file is a record of its path,
   its text and whether it can be read back. *)

\* config.IMAGES_DIR
IMAGES_DIR == Append(OUTPUT_DIR, <<"i", "m", "a", "g", "e", "s">>)

\* The number of documents of a run that cannot be read back
MaxUnreadable == 1

\* The characters of names in code-point order
CodePoints ==
    <<"\n", " ", "!", "-", ".", "/">> \o Digits \o <<":">> \o UpperCase \o <<"_">>
        \o LowerCase

\* ord(c)
ord(c) == CHOOSE i \in 1..Len(CodePoints) : CodePoints[i] = c

\* a < b for two strings
RECURSIVE StrLess(_, _)
StrLess(a, b) ==
    IF b = <<>> THEN FALSE
    ELSE IF a = <<>> THEN TRUE
    ELSE IF Head(a) = Head(b) THEN StrLess(Tail(a), Tail(b))
    ELSE ord(Head(a)) < ord(Head(b))

\* sorted(names)
RECURSIVE sorted(_)
sorted(names) ==
    IF names = {} THEN <<>>
    ELSE Only({<<m>> \o sorted(names \ {m}) :
                m \in {CHOOSE x \in names : \A y \in names \ {x} : StrLess(x, y)}})

\* The concatenation of a sequence of sequences
RECURSIVE Concat(_)
Concat(seqs) == IF seqs = <<>> THEN <<>> ELSE Head(seqs) \o Concat(Tail(seqs))

\* create_metadata_header(title, url, category, subcategory): None is the empty
\* string here, today is datetime.now() as %Y-%m-%d
create_metadata_header(title, url, category, subcategory, today) ==
    Join(<<<<"-", "-", "-">>, <<"t", "i", "t", "l", "e", ":", " ">> \o title, <<"u",
        "r", "l", ":", " ">> \o url, <<"d", "a", "t", "e", "_", "s", "c", "r", "a", "p",
            "e", "d", ":", " ">> \o today>>
         \o (IF category # <<>> THEN <<<<"c", "a", "t", "e", "g", "o", "r", "y", ":",
             " ">> \o category>> ELSE <<>>)
         \o (IF subcategory # <<>> THEN <<<<"s", "u", "b", "c", "a", "t", "e", "g", "o",
             "r", "y", ":", " ">> \o subcategory>> ELSE <<>>)
         \o <<<<"-", "-", "-", "\n">>>>, "\n")

\* _scrape_article: the file written for an article, metadata header first
WrittenFile(article, today, readable) ==
    [path |-> create_output_path(article.url, article.title,
                                 article.markdown_content, article.breadcrumbs),
     text |-> create_metadata_header(
                  article.title, article.url,
                  IF Len(article.breadcrumbs) > 1 THEN article.breadcrumbs[2] ELSE <<>>,
                  IF Len(article.breadcrumbs) > 2 THEN article.breadcrumbs[3] ELSE <<>>,
                  today) \o <<"\n">> \o article.markdown_content,
     readable |-> readable]

\* path is below directory dir
Below(path, dir) == Len(path) > Len(dir) /\ SubSeq(path, 1, Len(dir)) = dir

\* dir.iterdir(): the names in a directory
iterdir(tree, dir) == {f.path[Len(dir) + 1] : f \in {g \in tree : Below(g.path, dir)}}

\* path.is_dir()
is_dir(tree, path) == \E f \in tree : Below(f.path, path)

\* category_dir.glob('*.md'): the files in the directory itself whose names end
\* in .md, by name
glob_md(tree, category_dir) ==
    {f.path[Len(f.path)] :
        f \in {g \in tree : /\ Below(g.path, category_dir)
                            /\ Len(g.path) = Len(category_dir) + 1
                            /\ EndsWith(g.path[Len(g.path)], <<".", "m", "d">>)}}

\* The file at a path
FileAt(tree, path) == CHOOSE f \in tree : f.path = path

\* _generate_index_files: the entry of one article, none when the file cannot
\* be read or holds no line starting with title:
IndexEntry(tree, category_dir, name) ==
    Only({IF ~article.readable THEN <<>>
          ELSE Only({IF lines = <<>> THEN <<>>
                     ELSE <<<<"-", " ", "[">> \o Strip(Replace(lines[1], <<"t", "i",
                         "t", "l", "e", ":">>, <<>>), Whitespace)
                             \o <<"]", "(">> \o category_dir[Len(category_dir)] \o <<"/">>
                             \o name \o <<")">>>> :
                      lines \in {SelectSeq(Split(article.text, "\n"),
                                           LAMBDA line : StartsWith(line, <<"t", "i",
                                               "t", "l", "e", ":">>))}}) :
            article \in {FileAt(tree, Append(category_dir, name))}})

\* _generate_index_files: the heading of a category and the entries of the
\* documents in its directory, index.md apart
CategoryLines(tree, category_dir) ==
    Only({<<<<"\n">> \o <<"#", "#", "#", " ">>
             \o TitleOf(category_dir[Len(category_dir)])>>
          \o Concat([i \in 1..Len(articles) |->
                        IF articles[i] # <<"i", "n", "d", "e", "x", ".", "m", "d">>
                        THEN IndexEntry(tree, category_dir, articles[i]) ELSE <<>>]) :
            articles \in {sorted(glob_md(tree, category_dir))}})

\* _generate_index_files: index_content, the lines of output/index.md; now is
\* datetime.now() as %Y-%m-%d %H:%M:%S, total is len(self.scraped_urls)
generate_index_files(tree, now, total) ==
    Only({<<<<"#", " ", "H", "a", "l", "t", "e", "c", "h", " ", "K", "n", "o", "w", "l",
        "e", "d", "g", "e", " ", "B", "a", "s", "e">>,
            <<"\n">> \o <<"G", "e", "n", "e", "r", "a", "t", "e", "d", " ", "o", "n",
                ":", " ">> \o now,
            <<"\n">> \o <<"T", "o", "t", "a", "l", " ", "a", "r", "t", "i", "c", "l",
                "e", "s", ":", " ">> \o DecimalOf(total),
            <<"\n">> \o <<"#", "#", " ", "C", "a", "t", "e", "g", "o", "r", "i", "e",
                "s">> \o <<"\n">>>>
          \o Concat([i \in 1..Len(dirs) |->
                        CategoryLines(tree, Append(OUTPUT_DIR, dirs[i]))]) :
            dirs \in {sorted({n \in iterdir(tree, OUTPUT_DIR) :
                                /\ is_dir(tree, Append(OUTPUT_DIR, n))
                                /\ n # <<"i", "m", "a", "g", "e", "s">>})}})

\* The articles of a run
IndexArticles ==
    {[url |-> <<"h", "t", "t", "p", "s", ":", "/", "/", "s", "u", "p", "p", "o", "r",
        "t", ".", "h", "a", "l", "t", "e", "c", "h", ".", "c", "o", "m", "/", "p", "o",
            "r", "t", "a", "l", "/", "e", "n", "/", "k", "b", "/", "a", "r", "t", "i",
                "c", "l", "e", "s", "/", "r", "b", "2", "6", "-", "w", "i", "r", "i",
                    "n", "g">>,
      title |-> <<"R", "B", "2", "6", " ", "W", "i", "r", "i", "n", "g">>,
      breadcrumbs |-> <<<<"K", "n", "o", "w", "l", "e", "d", "g", "e", " ", "B", "a",
          "s", "e">>, <<"H", "a", "l", "t", "e", "c", "h">>>>,
      markdown_content |-> <<"P", "i", "n", "o", "u", "t">>],
     [url |-> <<"h", "t", "t", "p", "s", ":", "/", "/", "s", "u", "p", "p", "o", "r",
         "t", ".", "h", "a", "l", "t", "e", "c", "h", ".", "c", "o", "m", "/", "p", "o",
             "r", "t", "a", "l", "/", "e", "n", "/", "k", "b", "/", "h", "a", "l", "t",
                 "e", "c", "h", "/", "w", "i", "r", "i", "n", "g", "/", "p", "i", "n",
                     "o", "u", "t", "s">>,
      title |-> <<"P", "i", "n", "o", "u", "t", "s">>,
      breadcrumbs |-> <<>>,
      markdown_content |-> <<"P", "i", "n", "o", "u", "t">>],
     [url |-> <<"h", "t", "t", "p", "s", ":", "/", "/", "s", "u", "p", "p", "o", "r",
         "t", ".", "h", "a", "l", "t", "e", "c", "h", ".", "c", "o", "m", "/", "k", "b",
             "/", "a", "r", "t", "i", "c", "l", "e", "s", "/", "f", "u", "e", "l", "-",
                 "m", "a", "p">>,
      title |-> <<"S", "u", "b", "t", "i", "t", "l", "e", ":", " ", "F", "u", "e", "l",
          " ", "M", "a", "p">>,
      breadcrumbs |-> <<<<"K", "n", "o", "w", "l", "e", "d", "g", "e", " ", "B", "a",
          "s", "e">>, <<"H", "a", "l", "t", "e", "c", "h">>, <<"E", "n", "g", "i", "n",
              "e", " ", " ", "W", "i", "r", "i", "n", "g", "!">>>>,
      markdown_content |-> <<"P", "i", "n", "o", "u", "t">>],
     [url |-> <<"h", "t", "t", "p", "s", ":", "/", "/", "s", "u", "p", "p", "o", "r",
         "t", ".", "h", "a", "l", "t", "e", "c", "h", ".", "c", "o", "m", "/", "d", "o",
             "c", "s", "/", "g", "u", "i", "d", "e", "s", "/", "i", "n", "t", "r", "o">>,
      title |-> <<"I", "n", "t", "r", "o">>,
      breadcrumbs |-> <<<<"K", "n", "o", "w", "l", "e", "d", "g", "e", " ", "B", "a",
          "s", "e">>, <<"H", "a", "l", "t", "e", "c", "h">>, <<"E", "n", "g", "i", "n",
              "e", " ", " ", "W", "i", "r", "i", "n", "g", "!">>, <<"H", "a", "l", "t",
                  "e", "c", "h">>>>,
      markdown_content |-> <<"P", "i", "n", "o", "u", "t">>],
     [url |-> <<"h", "t", "t", "p", "s", ":", "/", "/", "s", "u", "p", "p", "o", "r",
         "t", ".", "h", "a", "l", "t", "e", "c", "h", ".", "c", "o", "m", "/", "p", "o",
             "r", "t", "a", "l", "/", "k", "b", "/", "f", "a", "q">>,
      title |-> <<"F", "A", "Q">>,
      breadcrumbs |-> <<>>,
      markdown_content |-> <<"P", "i", "n", "o", "u", "t">>],
     [url |-> <<"h", "t", "t", "p", "s", ":", "/", "/", "s", "u", "p", "p", "o", "r",
         "t", ".", "h", "a", "l", "t", "e", "c", "h", ".", "c", "o", "m", "/", "k", "b",
             "/", "a", "r", "t", "i", "c", "l", "e", "s", "/", "f", "u", "e", "l", "-",
                 "m", "a", "p">>,
      title |-> <<"I", "C", "-", "7", " ", "D", "a", "s", "h">>,
      breadcrumbs |-> <<<<"K", "n", "o", "w", "l", "e", "d", "g", "e", " ", "B", "a",
          "s", "e">>, <<"H", "a", "l", "t", "e", "c", "h">>>>,
      markdown_content |-> <<"P", "i", "n", "o", "u", "t">>]}

\* The files a run leaves in output/images
ImageFiles ==
    {[path |-> Append(IMAGES_DIR, <<"i", "m", "g", "_", "0", "_", "d", "i", "a", "g",
        "r", "a", "m", ".", "p", "n", "g">>), text |-> <<>>, readable |-> TRUE],
     [path |-> Append(IMAGES_DIR, <<"n", "o", "t", "e", "s", ".", "m",
         "d">>), text |-> <<"t", "i", "t", "l", "e", ":", " ", "N", "o", "t", "e", "s">>,
      readable |-> TRUE]}

InitIndex ==
    /\ ProgramIdle
    /\ \E written \in SUBSET IndexArticles : \E unreadable \in SUBSET written :
        /\ Cardinality(unreadable) <= MaxUnreadable
        /\ call = [fn |-> "_generate_index_files",
                   tree |-> {WrittenFile(a, <<"2", "0", "2", "4", "-", "0", "1", "-",
                       "0", "1">>, a \notin unreadable) :
                                a \in written} \cup ImageFiles,
                   now |-> <<"2", "0", "2", "4", "-", "0", "1", "-", "0", "1", " ", "0",
                       "0", ":", "0", "0", ":", "0", "0">>,
                   total |-> Cardinality(written)]
    /\ ret = [done |-> FALSE]

CallIndex ==
    /\ call.fn = "_generate_index_files"
    /\ ~ret.done
    /\ ret' = [done |-> TRUE,
               index_path |-> Append(OUTPUT_DIR, <<"i", "n", "d", "e", "x", ".", "m",
                   "d">>),
               val |-> generate_index_files(call.tree, call.now, call.total)]
    /\ UNCHANGED <<call, schedVars, crawlVars>>

NextIndex == CallIndex

SpecIndex == InitIndex /\ [][NextIndex]_vars

----------------------------------------------------------------------------
(* Properties of the index *)

\* The documents of the run below a category directory, outside output/images,
\* whose text can be read and holds a title line
IndexedDocuments ==
    {f \in call.tree :
        /\ Len(f.path) > Len(OUTPUT_DIR) + 1
        /\ ~Below(f.path, IMAGES_DIR)
        /\ EndsWith(f.path[Len(f.path)], <<".", "m", "d">>)
        /\ f.readable
        /\ Contains(f.text, <<"\n">> \o <<"t", "i", "t", "l", "e", ":">>)}

\* C20: once the index is built, every document of the run that lies below a
\* category directory at any depth, outside the images directory, and whose
\* front-matter title can be read, has an entry in index.md that links to it.
C20_EveryDocumentIndexed ==
    (call.fn = "_generate_index_files" /\ ret.done) =>
        \A f \in IndexedDocuments :
            \E i \in 1..Len(ret.val) :
                /\ StartsWith(ret.val[i], <<"-", " ", "[">>)
                /\ EndsWith(ret.val[i],
                            <<"]", "(">> \o Join(Drop(f.path, Len(OUTPUT_DIR)), "/") \o <<")">>)

----------------------------------------------------------------------------
(* The documents of a run: for each scraped article in turn, the write of
   _scrape_article (src/src/scraper.py) at the path create_output_path gives *)

\* The number of articles of a run
MaxDocuments == 2

\* The articles a run may scrape: those above, and one that discovery found
\* under a second URL with a query string
ScrapedArticles ==
    IndexArticles \cup
    {[url |-> <<"h", "t", "t", "p", "s", ":", "/", "/", "s", "u", "p", "p", "o", "r",
        "t", ".", "h", "a", "l", "t", "e", "c", "h", ".", "c", "o", "m", "/", "k", "b",
            "/", "a", "r", "t", "i", "c", "l", "e", "s", "/", "f", "u", "e", "l", "-",
                "m", "a", "p", "?", "r", "e", "f", "=", "d", "a", "s", "h">>,
      title |-> <<"I", "C", "-", "7", " ", "D", "a", "s", "h">>,
      breadcrumbs |-> <<<<"K", "n", "o", "w", "l", "e", "d", "g", "e", " ", "B", "a",
          "s", "e">>, <<"H", "a", "l", "t", "e", "c", "h">>>>,
      markdown_content |-> <<"P", "i", "n", "o", "u", "t">>]}

\* output_path.write_text(full_content): a file at that path is replaced
write_text(tree, file) == {f \in tree : f.path # file.path} \cup {file}

InitDocuments ==
    /\ ProgramIdle
    /\ \E n \in 1..MaxDocuments : \E articles \in [1..n -> ScrapedArticles] :
        /\ \A i, j \in 1..n : articles[i].url = articles[j].url => i = j
        /\ call = [fn |-> "_scrape_articles", articles |-> articles]
    /\ ret = [done |-> FALSE, tree |-> {}, scraped_urls |-> {}]

\* The write that ends the attempt of the next article, and scraped_urls.add
WriteDocument ==
    /\ call.fn = "_scrape_articles"
    /\ ~ret.done
    /\ \E article \in {call.articles[Cardinality(ret.scraped_urls) + 1]} :
        ret' = [done |-> Cardinality(ret.scraped_urls) + 1 = Len(call.articles),
                tree |-> write_text(ret.tree, WrittenFile(article, <<"2", "0", "2", "4",
                    "-", "0", "1", "-", "0", "1">>, TRUE)),
                scraped_urls |-> ret.scraped_urls \cup {article.url}]
    /\ UNCHANGED <<call, schedVars, crawlVars>>

NextDocuments == WriteDocument

SpecDocuments == InitDocuments /\ [][NextDocuments]_vars

----------------------------------------------------------------------------
(* Properties of the documents *)

\* C27: when the articles of a run are written, the documents of two distinct
\* URLs lie at distinct paths, so there are as many document files as scraped
\* URLs and each URL's document is the one at its path.
C27_DistinctPaths ==
    (call.fn = "_scrape_articles" /\ ret.done) =>
        /\ Cardinality(ret.tree) = Cardinality(ret.scraped_urls)
        /\ \A i \in 1..Len(call.articles) :
            \E f \in ret.tree :
                f = WrittenFile(call.articles[i], <<"2", "0", "2", "4", "-", "0", "1",
                    "-", "0", "1">>, TRUE)

----------------------------------------------------------------------------
(* The content extractor, src/src/parser.py: parse_article over a parsed page.
   The page is the sequence of its elements in document order; an element has
   its tag, its classes, id, role and aria-label, the index of its parent (0
   for the root), the text directly inside it and, for an img, src and alt.
   The soup is the page and the set of its elements not yet decomposed. *)

\* The number of content blocks in a page
MaxBlocks == 2

\* ArticleParser.content_selectors
content_selectors ==
    <<[class |-> "article-content"], [class |-> "kb-article-content"],
      [class |-> "content-wrapper"], [tag |-> "article"], [tag |-> "main"],
      [class |-> "main-content"], [id |-> "main-content"], [class |-> "post-content"],
      [class |-> "entry-content"], [tag |-> "div", role |-> "main"]>>

\* ArticleParser.breadcrumb_selectors
breadcrumb_selectors ==
    <<[class |-> "breadcrumb"], [tag |-> "nav", aria_label |-> "breadcrumb"],
      [class |-> "breadcrumbs"], [tag |-> "ol", class |-> "breadcrumb"],
      [tag |-> "ul", class |-> "breadcrumb"]>>

\* 'nav, aside, .sidebar, .related-articles'
UNWANTED == {[tag |-> "nav"], [tag |-> "aside"], [class |-> "sidebar"],
             [class |-> "related-articles"]}

\* 'script, style, nav, header, footer, aside, .sidebar'
NON_CONTENT ==
    {[tag |-> "script"], [tag |-> "style"], [tag |-> "nav"], [tag |-> "header"],
     [tag |-> "footer"], [tag |-> "aside"], [class |-> "sidebar"]}

\* 'div, article, section, main'
CONTAINERS == {[tag |-> "div"], [tag |-> "article"], [tag |-> "section"],
               [tag |-> "main"]}

\* An element matches a simple selector: every attribute the selector names
Matches(elem, selector) ==
    /\ "tag" \in DOMAIN selector => elem.tag = selector.tag
    /\ "class" \in DOMAIN selector => selector.class \in elem.class
    /\ "id" \in DOMAIN selector => elem.id = selector.id
    /\ "role" \in DOMAIN selector => elem.role = selector.role
    /\ "aria_label" \in DOMAIN selector => elem.aria_label = selector.aria_label

\* Element j lies inside element i
RECURSIVE Inside(_, _, _)
Inside(page, j, i) ==
    /\ page[j].parent # 0
    /\ (page[j].parent = i \/ Inside(page, page[j].parent, i))

\* elem.select(selectors): the elements inside elem that match, in the soup
select(page, alive, elem, selectors) ==
    {j \in alive : Inside(page, j, elem) /\ \E sel \in selectors : Matches(page[j], sel)}

\* soup.select_one(selector): the first match in document order, 0 for None
select_one(page, alive, selector) ==
    IF \E j \in alive : Matches(page[j], selector)
    THEN CHOOSE j \in alive :
            Matches(page[j], selector)
            /\ \A k \in alive : Matches(page[k], selector) => j <= k
    ELSE 0

\* tag.decompose() for every tag of a set: the tags and all inside them go
decompose(page, alive, tags) ==
    {j \in alive : j \notin tags /\ \A t \in tags : ~Inside(page, j, t)}

\* elem.get_text(strip=True): the stripped strings of elem, joined, from
\* element j on
RECURSIVE TextFrom(_, _, _, _)
TextFrom(page, alive, elem, j) ==
    IF j > Len(page) THEN <<>>
    ELSE (IF j \in alive /\ (j = elem \/ Inside(page, j, elem))
          THEN Strip(page[j].text, Whitespace) ELSE <<>>)
         \o TextFrom(page, alive, elem, j + 1)

get_text(page, alive, elem) == TextFrom(page, alive, elem, elem)

\* len(text_content) > 100
Substantial(text_content) == Len(text_content) > 100

\* str(content): the element and what is left inside it
Markup(page, alive, elem) ==
    [elem |-> elem, nodes |-> {j \in alive : j = elem \/ Inside(page, j, elem)}]

\* _extract_content_heuristic: the container with the highest score, the first
\* of them in document order, over a copy of the soup without the non-content
\* tags; the body, or "", without a container that scores more than 200
Score(page, kept, elem) ==
    Len(get_text(page, kept, elem))
        + 50 * Cardinality(select(page, kept, elem, {[tag |-> "p"]}))

extract_content_heuristic(page, alive) ==
    Only({Only({IF containers # {}
                THEN Markup(page, kept,
                            CHOOSE e \in containers :
                                \A o \in containers :
                                    \/ Score(page, kept, e) > Score(page, kept, o)
                                    \/ Score(page, kept, e) = Score(page, kept, o)
                                       /\ e <= o)
                ELSE IF select_one(page, kept, [tag |-> "body"]) # 0
                THEN Markup(page, kept, select_one(page, kept, [tag |-> "body"]))
                ELSE <<>> :
                  containers \in
                    {{e \in kept : /\ \E sel \in CONTAINERS : Matches(page[e], sel)
                                   /\ Score(page, kept, e) > 200}}}) :
            kept \in {decompose(page, alive,
                                {j \in alive :
                                    \E sel \in NON_CONTENT : Matches(page[j], sel)})}})

\* _extract_content from selector k on: soup is what the selectors before left
\* of the page, tried the candidates met so far with the length of their text
RECURSIVE Cascade(_, _, _, _)
Cascade(page, alive, k, tried) ==
    IF k > Len(content_selectors)
    THEN [content |-> extract_content_heuristic(page, alive), selector |-> 0,
          soup |-> alive, tried |-> tried]
    ELSE Only({
        IF content_elem = 0 THEN Cascade(page, alive, k + 1, tried)
        ELSE Only({Only({
                IF Substantial(text_content)
                THEN [content |-> Markup(page, cleaned, content_elem), selector |-> k,
                      soup |-> cleaned,
                      tried |-> Append(tried, [selector |-> k, elem |-> content_elem,
                                               length |-> Len(text_content)])]
                ELSE Cascade(page, cleaned, k + 1,
                             Append(tried, [selector |-> k, elem |-> content_elem,
                                            length |-> Len(text_content)])) :
                    text_content \in {get_text(page, cleaned, content_elem)}}) :
                cleaned \in {decompose(page, alive,
                                       select(page, alive, content_elem, UNWANTED))}}) :
        content_elem \in {select_one(page, alive, content_selectors[k])}})

\* _extract_content(soup)
extract_content(page, alive) == Cascade(page, alive, 1, <<>>)

\* The elements of a set in document order
RECURSIVE InOrder(_)
InOrder(S) ==
    IF S = {} THEN <<>>
    ELSE Only({<<m>> \o InOrder(S \ {m}) : m \in {CHOOSE x \in S : \A y \in S : x <= y}})

\* The texts of the elements of a sequence that have any and are no separator
\* (of the separators of the source the pages hold '/')
ItemTexts(page, alive, elems, separators) ==
    SelectSeq([i \in 1..Len(elems) |-> get_text(page, alive, elems[i])],
              LAMBDA text : text # <<>> /\ text \notin separators)

\* _extract_breadcrumbs from selector k on
RECURSIVE BreadcrumbsFrom(_, _, _)
BreadcrumbsFrom(page, alive, k) ==
    IF k > Len(breadcrumb_selectors) THEN <<>>
    ELSE Only({
        IF breadcrumb_elem = 0 THEN BreadcrumbsFrom(page, alive, k + 1)
        ELSE Only({Only({IF items # <<>> THEN items
                         ELSE BreadcrumbsFrom(page, alive, k + 1) :
                            items \in {IF li # <<>> THEN li
                                       ELSE ItemTexts(page, alive,
                                                InOrder(select(page, alive, breadcrumb_elem,
                                                    {[tag |-> "a"], [tag |-> "span"]})),
                                                {<<">">>, <<"/">>})}}) :
                    li \in {ItemTexts(page, alive,
                                      InOrder(select(page, alive, breadcrumb_elem,
                                                     {[tag |-> "li"]})),
                                      {<<">">>, <<"/">>})}}) :
        breadcrumb_elem \in {select_one(page, alive, breadcrumb_selectors[k])}})

extract_breadcrumbs(page, alive) == BreadcrumbsFrom(page, alive, 1)

\* _extract_images(soup): src, alt and title of every img with a src, in document
\* order
extract_images(page, alive) ==
    Only({[i \in 1..Len(imgs) |-> [src |-> page[imgs[i]].src, alt |-> page[imgs[i]].alt,
                           title |-> page[imgs[i]].title]] :
            imgs \in {InOrder({j \in alive : page[j].tag = "img" /\ page[j].src # <<>>})}})

\* parse_article(html_content, url): the content comes first and the
\* breadcrumbs and the images are read from the soup it leaves; the title and
\* the metadata, which only read the soup, are left out
parse_article(page) ==
    Only({[content |-> extracted.content, selector |-> extracted.selector,
           tried |-> extracted.tried,
           breadcrumbs |-> extract_breadcrumbs(page, extracted.soup),
           images |-> extract_images(page, extracted.soup)] :
            extracted \in {extract_content(page, 1..Len(page))}})

\* An element
Element(tag, class, parent, text) ==
    [tag |-> tag, class |-> class, id |-> "", role |-> "", aria_label |-> "",
     parent |-> parent, text |-> text, src |-> <<>>, alt |-> <<>>,
     title |-> <<>>]

\* The lengths of the text of a block
TextLengths == {40, 100, 101, 260}

\* The containers of a block: matched by the first selector, by the fifth, by
\* none
BlockKinds == {"article-content", "main", "div"}

\* A block whose container is element at of the page, under the body: the
\* container, its paragraph of n characters, an image, and with nav a
\* breadcrumb trail that holds an image
Block(kind, n, nav, at) ==
    <<Element(IF kind = "main" THEN "main" ELSE "div",
              IF kind = "article-content" THEN {"article-content"} ELSE {}, 2, <<>>),
      Element("p", {}, at, [i \in 1..n |-> "x"]),
      [Element("img", {}, at, <<>>) EXCEPT !.src = <<"/", "i", "m", "g", "/", "d", "i",
          "a", "g", "r", "a", "m", ".", "p", "n", "g">>,
                                           !.alt = <<"P", "i", "n", "o", "u", "t">>]>>
    \o (IF nav
        THEN <<[Element("nav", {}, at, <<>>) EXCEPT !.aria_label = "breadcrumb"],
               Element("a", {}, at + 3, <<"K", "n", "o", "w", "l", "e", "d", "g", "e",
                   " ", "B", "a", "s", "e">>),
               Element("span", {}, at + 3, <<"/">>),
               Element("a", {}, at + 3, <<"H", "a", "l", "t", "e", "c", "h">>),
               [Element("img", {}, at + 3, <<>>) EXCEPT !.src = <<"/", "i", "m", "g",
                   "/", "h", "o", "m", "e", ".", "p", "n", "g">>,
                                                        !.alt = <<"H", "o", "m", "e">>]>>
        ELSE <<>>)

\* The page of a sequence of blocks: html, body and the blocks
RECURSIVE PageOf(_, _)
PageOf(blocks, page) ==
    IF blocks = <<>> THEN page
    ELSE PageOf(Tail(blocks),
                page \o Block(Head(blocks).kind, Head(blocks).n, Head(blocks).nav,
                              Len(page) + 1))

Pages ==
    {PageOf(blocks, <<Element("html", {}, 0, <<>>), Element("body", {}, 1, <<>>)>>) :
        blocks \in UNION {[1..k -> [kind : BlockKinds, n : TextLengths, nav : BOOLEAN]] :
                            k \in 1..MaxBlocks}}

InitParse ==
    /\ ProgramIdle
    /\ call \in {[fn |-> "parse_article", page |-> page] : page \in Pages}
    /\ ret = [done |-> FALSE]

CallParse ==
    /\ call.fn = "parse_article"
    /\ ~ret.done
    /\ ret' = [done |-> TRUE, val |-> parse_article(call.page)]
    /\ UNCHANGED <<call, schedVars, crawlVars>>

NextParse == CallParse

SpecParse == InitParse /\ [][NextParse]_vars

----------------------------------------------------------------------------
(* Properties of the content extractor *)

\* parse_article has returned
Parsed == call.fn = "parse_article" /\ ret.done

\* C21: in the selector cascade a candidate is rejected exactly when its text
\* has fewer than 100 characters: every candidate passed over has fewer than
\* 100, the one returned has 100 or more, and the content comes from the
\* heuristic exactly when every candidate was rejected.
C21_RejectedBelowThreshold ==
    Parsed =>
        /\ \A i \in 1..Len(ret.val.tried) :
            (ret.val.tried[i].length < 100)
                <=> (ret.val.selector # ret.val.tried[i].selector)
        /\ ret.val.selector # 0 =>
                ret.val.content.elem = ret.val.tried[Len(ret.val.tried)].elem

\* C22: the images parse_article returns are those of every img of the page
\* that has a src, in document order, and the breadcrumbs are those of the
\* page's trail, also for elements inside the nav of a content candidate.
C22_AllImagesListed ==
    Parsed =>
        /\ ret.val.images = extract_images(call.page, 1..Len(call.page))
        /\ ret.val.breadcrumbs = extract_breadcrumbs(call.page, 1..Len(call.page))

====
